---------------------------- MODULE Spec2Model ----------------------------
(***************************************************************************)
(* The four repository-policy validators of scripts/: 01-validate-naming,  *)
(* 02-validate-extensions, 03-security-check and 04-check-todos.  Each is  *)
(* a separate process; each has its own specification below, over the      *)
(* shared variables.  Regular expressions are modelled by their match      *)
(* tables over a finite alphabet of concrete line texts, names and paths:  *)
(* the tables are the results of the source's patterns on those texts.     *)
(* The database gateway (api_gateway.py) and the dependency monitor        *)
(* (06-dependency-monitor.py) have their own specifications, SpecGateway   *)
(* and SpecMonitor, over variables the validators leave idle.              *)
(***************************************************************************)
EXTENDS Integers, Sequences, FiniteSets, TLC

VARIABLES
    script,           \* the script this process runs
    fs,               \* the file system the process sees
    argv,             \* sys.argv[1:]
    pc,               \* position of the process in main()
    idx,              \* position of main's for loop over the file arguments
    exit_code,        \* the process's exit status (NoExit while running)
    raised,           \* the uncaught exception that ended the run, or "none"
    issues,           \* result of the last check_file_security / check_file_todos
    total_errors,     \* 03-security-check.py main
    total_warnings,
    total_info,
    total_issues,     \* 04-check-todos.py main
    files_with_issues,
    filepaths,
    stats,
    TODO_PATTERNS,    \* 04-check-todos.py module-level rule list
    config,           \* 01/02: what load_config returned
    violations,       \* 01/02: the violations list
    walk,             \* 01: directories os.walk has still to yield
    ai_models_discovery_api_secret_key,  \* api_gateway.py: the configured secret
    supabase,         \* api_gateway.py: the database client, or None
    ai_models_discovery,  \* the models table behind the gateway
    ai_models_staging,    \* the staging table behind the gateway
    request,          \* the request the gateway handled last
    response,         \* the response it gave
    db_calls,         \* the database operations that request got executed
    served,           \* number of requests handled
    project,          \* 06-dependency-monitor.py: the project directory
    state_file,       \* .dependency-state.json
    npm,              \* what the package manager does when run
    results           \* what monitor_dependencies returned

vars == <<script, fs, argv, pc, idx, exit_code, raised, issues, total_errors,
          total_warnings, total_info, total_issues, files_with_issues,
          filepaths, stats, TODO_PATTERNS, config, violations, walk,
          ai_models_discovery_api_secret_key, supabase, ai_models_discovery,
          ai_models_staging, request, response, db_calls, served,
          project, state_file, npm, results>>

secVars == <<total_errors, total_warnings, total_info>>
todoVars == <<total_issues, files_with_issues, filepaths, stats, TODO_PATTERNS>>
nameVars == <<config, violations, walk>>
gatewayVars == <<ai_models_discovery_api_secret_key, supabase, ai_models_discovery,
                 ai_models_staging, request, response, db_calls, served>>
monitorVars == <<project, state_file, npm, results>>
serviceVars == <<gatewayVars, monitorVars>>

(***************************************************************************)
(* Bounds of the model.                                                    *)
(***************************************************************************)
MaxArgs == 3
MaxLines == 2

\* exit_code while the process runs: no status a script exits with.
NoExit == 0 - 1
\* None
Null == [none |-> TRUE]

\* The four scripts; a process runs one of them.
ValidateNaming == "01-validate-naming.py"
ValidateExtensions == "02-validate-extensions.py"
SecurityCheck == "03-security-check.py"
CheckTodos == "04-check-todos.py"

\* Python list helpers.
Range(s) == {s[i] : i \in 1..Len(s)}
In(x, list) == x \in Range(list)
Rep(x, n) == [k \in 1..n |-> x]
SeqsUpTo(S, n) == UNION {[1..k -> S] : k \in 0..n}
NonEmptySeqsUpTo(S, n) == UNION {[1..k -> S] : k \in 1..n}

(***************************************************************************)
(* Files.  A file's content is the sequence content.split('\n'): the empty *)
(* file is <<"">>, a file that ends in a newline has "" as its last piece. *)
(***************************************************************************)
Missing == [exists |-> FALSE, decodable |-> FALSE, content |-> <<"">>]
Undecodable == [exists |-> TRUE, decodable |-> FALSE, content |-> <<"">>]
TextFile(c) == [exists |-> TRUE, decodable |-> TRUE, content |-> c]

\* os.path.exists
os_path_exists(filepath) == fs[filepath].exists

(***************************************************************************)
(* 03-security-check.py                                                    *)
(***************************************************************************)
\* The line texts of the model's source files, and the paths they live at.
SecLines ==
    { "", "x = 1",
      "api_key = \"abcdefghij\"",
      "# SECURITY: REVIEWED",
      "api_key = \"abcdefghij\"  # SECURITY: REVIEWED",
      "h = md5(a) + sha1(b)",
      "m = md5(a) or sha1(b)",
      "r = Math.random()",
      "api_key =",
      "\"abcdefghij\"",
      "\"abcdefghij\"  # SECURITY: REVIEWED" }

SecPaths ==
    { "a.py", "c.py", "k.py", "b.js", "notes.md", "lib/validators/v.py", "bin.py",
      "gone.py" }

\* Path(filepath).suffix.lstrip('.')
get_file_extension(filepath) ==
    CASE filepath \in {"a.py", "c.py", "k.py", "lib/validators/v.py", "bin.py", "gone.py",
                       "t.py", "u.py"} -> "py"
      [] filepath \in {"b.js", "s.js"} -> "js"
      [] filepath \in {"notes.md"} -> "md"
      [] filepath \in {"list.txt"} -> "txt"
      [] OTHER -> ""

DefaultFileTypes == <<"js", "jsx", "ts", "tsx", "py">>
WebFileTypes == <<"js", "jsx", "ts", "tsx">>
NoFileTypes == <<>>

\* A mutant of the constructor: a rule given no file types applies everywhere.
SecurityPatternAllTypes(name, severity, file_types) ==
    [name |-> name, severity |-> severity,
     file_types |-> IF file_types = NoFileTypes
                    THEN <<"js", "jsx", "ts", "tsx", "py", "md", "txt", "">>
                    ELSE file_types]

\* SecurityPattern.__init__: file_types or ['js', 'jsx', 'ts', 'tsx', 'py']
SecurityPattern(name, severity, file_types) ==
    [name |-> name, severity |-> severity,
     file_types |-> IF file_types = NoFileTypes THEN DefaultFileTypes ELSE file_types]

\* The file types each rule is declared with (NoFileTypes: none given).
DeclaredFileTypes ==
    << NoFileTypes, NoFileTypes, NoFileTypes, NoFileTypes, NoFileTypes,
       DefaultFileTypes, WebFileTypes, WebFileTypes, WebFileTypes, WebFileTypes,
       NoFileTypes, WebFileTypes, NoFileTypes, DefaultFileTypes,
       <<"py">>, <<"py">>, <<"py">>,
       DefaultFileTypes, WebFileTypes, DefaultFileTypes >>

SECURITY_PATTERNS ==
    << SecurityPattern("hardcoded-password", "error", DeclaredFileTypes[1]),
       SecurityPattern("hardcoded-api-key", "error", DeclaredFileTypes[2]),
       SecurityPattern("hardcoded-secret", "error", DeclaredFileTypes[3]),
       SecurityPattern("jwt-hardcoded", "error", DeclaredFileTypes[4]),
       SecurityPattern("database-connection", "error", DeclaredFileTypes[5]),
       SecurityPattern("sql-injection-risk", "warning", DeclaredFileTypes[6]),
       SecurityPattern("dynamic-sql", "warning", DeclaredFileTypes[7]),
       SecurityPattern("dangerous-innerhtml", "warning", DeclaredFileTypes[8]),
       SecurityPattern("eval-usage", "error", DeclaredFileTypes[9]),
       SecurityPattern("function-constructor", "warning", DeclaredFileTypes[10]),
       SecurityPattern("http-url", "warning", DeclaredFileTypes[11]),
       SecurityPattern("insecure-random", "info", DeclaredFileTypes[12]),
       SecurityPattern("path-traversal", "warning", DeclaredFileTypes[13]),
       SecurityPattern("file-inclusion", "warning", DeclaredFileTypes[14]),
       SecurityPattern("python-exec", "error", DeclaredFileTypes[15]),
       SecurityPattern("python-input", "warning", DeclaredFileTypes[16]),
       SecurityPattern("pickle-load", "error", DeclaredFileTypes[17]),
       SecurityPattern("debug-true", "warning", DeclaredFileTypes[18]),
       SecurityPattern("console-log-sensitive", "warning", DeclaredFileTypes[19]),
       SecurityPattern("weak-crypto", "warning", DeclaredFileTypes[20]) >>

\* The number of matches of a rule's pattern that lie within one line.
PatternLineHits(name, line) ==
    CASE name = "hardcoded-api-key"
           /\ line \in {"api_key = \"abcdefghij\"",
                        "api_key = \"abcdefghij\"  # SECURITY: REVIEWED"} -> 1
      [] name = "insecure-random" /\ line = "r = Math.random()" -> 1
      [] name = "file-inclusion" /\ line = "h = md5(a) + sha1(b)" -> 1
      [] name = "weak-crypto"
           /\ line \in {"h = md5(a) + sha1(b)", "m = md5(a) or sha1(b)"} -> 2
      [] OTHER -> 0

\* A match that starts in one line and ends in a later one: \s* in a pattern
\* runs over line ends and blank lines.
PatternSpans(name) ==
    IF name = "hardcoded-api-key"
    THEN {<<"api_key =", "\"abcdefghij\"">>,
          <<"api_key =", "\"abcdefghij\"  # SECURITY: REVIEWED">>}
    ELSE {}

PatternSpanFrom(name, lines, i) ==
    \E j \in (i + 1)..Len(lines) :
        /\ <<lines[i], lines[j]>> \in PatternSpans(name)
        /\ \A k \in (i + 1)..(j - 1) : lines[k] = ""

\* A mutant of the match position: a match that runs over line ends is
\* placed on the line where it ends.
finditer_end(name, lines) ==
    LET End(i) == CHOOSE j \in (i + 1)..Len(lines) :
                      /\ <<lines[i], lines[j]>> \in PatternSpans(name)
                      /\ \A k \in (i + 1)..(j - 1) : lines[k] = ""
        F[i \in 0..Len(lines)] ==
            IF i = 0 THEN <<>>
            ELSE F[i - 1] \o Rep(i - 1, PatternLineHits(name, lines[i]))
                          \o (IF PatternSpanFrom(name, lines, i)
                              THEN <<End(i) - 1>> ELSE <<>>)
    IN  F[Len(lines)]

\* pattern.pattern.finditer(content): the matches in order, each given by the
\* number of newline characters before its start.
finditer(name, lines) ==
    LET F[i \in 0..Len(lines)] ==
            IF i = 0 THEN <<>>
            ELSE F[i - 1] \o Rep(i - 1, PatternLineHits(name, lines[i]))
                          \o (IF PatternSpanFrom(name, lines, i) THEN <<i - 1>> ELSE <<>>)
    IN  F[Len(lines)]

\* line.strip().lower() / filepath.lower()
StripLower(text) ==
    CASE text = "# SECURITY: REVIEWED" -> "# security: reviewed"
      [] text = "api_key = \"abcdefghij\"  # SECURITY: REVIEWED"
           -> "api_key = \"abcdefghij\"  # security: reviewed"
      [] text = "\"abcdefghij\"  # SECURITY: REVIEWED"
           -> "\"abcdefghij\"  # security: reviewed"
      [] text = "r = Math.random()" -> "r = math.random()"
      [] OTHER -> text

ALLOWLIST_PATTERNS ==
    << "// SECURITY: REVIEWED", "# SECURITY: REVIEWED", "TODO.*security",
       "FIXME.*security", "test.*password", "example.*password",
       "placeholder.*key", "demo.*secret", "validator|validation",
       "\\.includes\\(['\"]\\.\\.\\/['\"]", "error.*contains.*\\.\\.",
       "refine.*\\.\\.", "pattern.*\\.\\.", "/lib/validators/",
       "\\.test\\.|\\.spec\\.", "describe\\(|it\\(|expect\\(" >>

\* re.search(pattern_str, text, re.IGNORECASE) for the allowlist patterns.
re_search(pattern_str, text) ==
    CASE pattern_str = "# SECURITY: REVIEWED" ->
             text \in {"# security: reviewed",
                       "api_key = \"abcdefghij\"  # security: reviewed",
                       "\"abcdefghij\"  # security: reviewed"}
      [] pattern_str = "validator|validation" -> text = "lib/validators/v.py"
      [] OTHER -> FALSE

\* A mutant of is_allowlisted_line: the file path is not looked at.
is_allowlisted_line_only(line, filepath) ==
    \E k \in 1..Len(ALLOWLIST_PATTERNS) :
        re_search(ALLOWLIST_PATTERNS[k], StripLower(line))

is_allowlisted_line(line, filepath) ==
    \E k \in 1..Len(ALLOWLIST_PATTERNS) :
        \/ re_search(ALLOWLIST_PATTERNS[k], StripLower(line))
        \/ re_search(ALLOWLIST_PATTERNS[k], StripLower(filepath))

\* A mutant of the scan: an annotation on the line before a match suppresses it too.
PatternIssuesPrevLine(pattern, lines, filepath) ==
    LET ms == finditer(pattern.name, lines)
        Keep(m) ==
            LET line_num == m + 1
                line_content == IF line_num <= Len(lines) THEN lines[line_num] ELSE ""
                previous == IF line_num > 1 THEN lines[line_num - 1] ELSE ""
            IN  /\ ~is_allowlisted_line(line_content, filepath)
                /\ ~is_allowlisted_line(previous, filepath)
        G[i \in 0..Len(ms)] ==
            IF i = 0 THEN <<>>
            ELSE IF Keep(ms[i])
                 THEN Append(G[i - 1], [severity |-> pattern.severity,
                                        line_num |-> ms[i] + 1,
                                        name |-> pattern.name])
                 ELSE G[i - 1]
    IN  G[Len(ms)]

\* A mutant of the scan: every match becomes an issue, allowlisted or not.
PatternIssuesUnfiltered(pattern, lines, filepath) ==
    LET ms == finditer(pattern.name, lines)
    IN  [i \in 1..Len(ms) |-> [severity |-> pattern.severity,
                               line_num |-> ms[i] + 1,
                               name |-> pattern.name]]

\* A mutant of the scan: matches of a rule on the same line give one issue.
PatternIssuesMerged(pattern, lines, filepath) ==
    LET ms == finditer(pattern.name, lines)
        Keep(i) ==
            /\ ~is_allowlisted_line(lines[ms[i] + 1], filepath)
            /\ \A j \in 1..(i - 1) : ms[j] # ms[i]
        G[i \in 0..Len(ms)] ==
            IF i = 0 THEN <<>>
            ELSE IF Keep(i)
                 THEN Append(G[i - 1], [severity |-> pattern.severity,
                                        line_num |-> ms[i] + 1,
                                        name |-> pattern.name])
                 ELSE G[i - 1]
    IN  G[Len(ms)]

\* The issues one rule adds: one per match that is not allowlisted.
PatternIssues(pattern, lines, filepath) ==
    LET ms == finditer(pattern.name, lines)
        Keep(m) ==
            LET line_num == m + 1
                line_content == IF line_num <= Len(lines) THEN lines[line_num] ELSE ""
            IN  ~is_allowlisted_line(line_content, filepath)
        G[i \in 0..Len(ms)] ==
            IF i = 0 THEN <<>>
            ELSE IF Keep(ms[i])
                 THEN Append(G[i - 1], [severity |-> pattern.severity,
                                        line_num |-> ms[i] + 1,
                                        name |-> pattern.name])
                 ELSE G[i - 1]
    IN  G[Len(ms)]

\* Whether check_file_security applies a rule to a file of this extension.
RuleApplies(pattern, file_ext) == In(file_ext, pattern.file_types)

\* A mutant of the scan: a file that cannot be decoded counts as one error.
check_file_security_strict(filepath) ==
    IF ~os_path_exists(filepath) THEN <<>>
    ELSE IF ~fs[filepath].decodable
         THEN << [severity |-> "error", line_num |-> 0, name |-> "undecodable"] >>
    ELSE LET file_ext == get_file_extension(filepath)
             lines == fs[filepath].content
             H[k \in 0..Len(SECURITY_PATTERNS)] ==
                 IF k = 0 THEN <<>>
                 ELSE IF ~RuleApplies(SECURITY_PATTERNS[k], file_ext) THEN H[k - 1]
                 ELSE H[k - 1] \o PatternIssues(SECURITY_PATTERNS[k], lines, filepath)
         IN  H[Len(SECURITY_PATTERNS)]

check_file_security(filepath) ==
    IF ~os_path_exists(filepath) THEN <<>>
    ELSE IF ~fs[filepath].decodable THEN <<>>
    ELSE LET file_ext == get_file_extension(filepath)
             lines == fs[filepath].content
             H[k \in 0..Len(SECURITY_PATTERNS)] ==
                 IF k = 0 THEN <<>>
                 ELSE IF ~RuleApplies(SECURITY_PATTERNS[k], file_ext) THEN H[k - 1]
                 ELSE H[k - 1] \o PatternIssues(SECURITY_PATTERNS[k], lines, filepath)
         IN  H[Len(SECURITY_PATTERNS)]

CountSeverity(iss, sev) == Cardinality({i \in 1..Len(iss) : iss[i].severity = sev})

\* The warnings main tolerates: total_warnings > 5 fails.
MaxWarnings == 5

\* A mutant of the exit decision: the limit itself already fails.
SecurityExitStrict(errors, warnings, info) ==
    IF errors > 0 THEN 1 ELSE IF warnings >= MaxWarnings THEN 1 ELSE 0

\* main's summary: the exit status for the final counters.
SecurityExit(errors, warnings, info) ==
    IF errors > 0 \/ warnings > 0 \/ info > 0
    THEN IF errors > 0 THEN 1
         ELSE IF warnings > MaxWarnings THEN 1
         ELSE 0
    ELSE 0

\* The files of the aggregate runs.
SecFixture ==
    [p \in SecPaths |->
        CASE p = "a.py" -> TextFile(<<"h = md5(a) + sha1(b)">>)
          [] p = "c.py" -> TextFile(<<"m = md5(a) or sha1(b)">>)
          [] p = "k.py" -> TextFile(<<"# SECURITY: REVIEWED", "api_key = \"abcdefghij\"">>)
          [] p = "b.js" -> TextFile(<<"r = Math.random()">>)
          [] p = "notes.md" -> TextFile(<<"api_key = \"abcdefghij\"">>)
          [] p = "lib/validators/v.py" -> TextFile(<<"api_key = \"abcdefghij\"">>)
          [] p = "bin.py" -> Undecodable
          [] OTHER -> Missing]

\* One file of any content at any path, the other paths missing.
OneFile(paths, p, f) == [q \in paths |-> IF q = p THEN f ELSE Missing]

IdleTodo ==
    /\ total_issues = 0
    /\ files_with_issues = 0
    /\ filepaths = <<>>
    /\ stats = Null
    /\ TODO_PATTERNS = <<>>

IdleSecurity ==
    /\ total_errors = 0
    /\ total_warnings = 0
    /\ total_info = 0

IdleNaming ==
    /\ config = Null
    /\ violations = <<>>
    /\ walk = <<>>

\* A validator process has no gateway and no dependency monitor.
IdleGateway ==
    /\ ai_models_discovery_api_secret_key = Null
    /\ supabase = Null
    /\ ai_models_discovery = <<>>
    /\ ai_models_staging = <<>>
    /\ request = Null
    /\ response = Null
    /\ db_calls = <<>>
    /\ served = 0

IdleMonitor ==
    /\ project = Null
    /\ state_file = Null
    /\ npm = Null
    /\ results = Null

InitSecurity ==
    /\ script = SecurityCheck
    /\ \/ /\ fs = SecFixture
          /\ argv \in SeqsUpTo(SecPaths, MaxArgs)
       \/ \E p \in SecPaths :
          \E f \in {Undecodable}
                   \cup {TextFile(c) : c \in NonEmptySeqsUpTo(SecLines, MaxLines)} :
             /\ fs = OneFile(SecPaths, p, f)
             /\ argv = <<p>>
    /\ pc = "start"
    /\ idx = 0
    /\ exit_code = NoExit
    /\ raised = "none"
    /\ IdleGateway
    /\ IdleMonitor
    /\ issues = <<>>
    /\ IdleSecurity
    /\ IdleTodo
    /\ IdleNaming

\* len(sys.argv) < 2: usage, exit 1
SecUsage ==
    /\ script = SecurityCheck
    /\ pc = "start"
    /\ Len(argv) < 1
    /\ pc' = "done"
    /\ exit_code' = 1
    /\ UNCHANGED <<serviceVars, script, fs, argv, idx, raised, issues, secVars, todoVars, nameVars>>

SecStart ==
    /\ script = SecurityCheck
    /\ pc = "start"
    /\ Len(argv) >= 1
    /\ total_errors' = 0
    /\ total_warnings' = 0
    /\ total_info' = 0
    /\ idx' = 1
    /\ pc' = "loop"
    /\ UNCHANGED <<serviceVars, script, fs, argv, exit_code, raised, issues, todoVars, nameVars>>

\* for filepath in sys.argv[1:]: if not os.path.exists(filepath): continue
SecSkipMissing ==
    /\ script = SecurityCheck
    /\ pc = "loop"
    /\ idx <= Len(argv)
    /\ ~os_path_exists(argv[idx])
    /\ idx' = idx + 1
    /\ UNCHANGED <<serviceVars, script, fs, argv, pc, exit_code, raised, issues, secVars, todoVars, nameVars>>

\* A mutant of the loop body: the counters hold the last file's findings only.
SecCheckFileLast ==
    /\ script = SecurityCheck
    /\ pc = "loop"
    /\ idx <= Len(argv)
    /\ os_path_exists(argv[idx])
    /\ LET found == check_file_security(argv[idx])
       IN  /\ issues' = found
           /\ total_errors' = CountSeverity(found, "error")
           /\ total_warnings' = CountSeverity(found, "warning")
           /\ total_info' = Len(found) - CountSeverity(found, "error")
                                       - CountSeverity(found, "warning")
    /\ idx' = idx + 1
    /\ UNCHANGED <<serviceVars, script, fs, argv, pc, exit_code, raised, todoVars, nameVars>>

\* One pass of main's loop over an existing file: scan it, count its issues.
SecCheckFile ==
    /\ script = SecurityCheck
    /\ pc = "loop"
    /\ idx <= Len(argv)
    /\ os_path_exists(argv[idx])
    /\ LET found == check_file_security(argv[idx])
       IN  /\ issues' = found
           /\ total_errors' = total_errors + CountSeverity(found, "error")
           /\ total_warnings' = total_warnings + CountSeverity(found, "warning")
           /\ total_info' = total_info + Len(found) - CountSeverity(found, "error")
                                        - CountSeverity(found, "warning")
    /\ idx' = idx + 1
    /\ UNCHANGED <<serviceVars, script, fs, argv, pc, exit_code, raised, todoVars, nameVars>>

SecSummary ==
    /\ script = SecurityCheck
    /\ pc = "loop"
    /\ idx > Len(argv)
    /\ exit_code' = SecurityExit(total_errors, total_warnings, total_info)
    /\ pc' = "done"
    /\ UNCHANGED <<serviceVars, script, fs, argv, idx, raised, issues, secVars, todoVars, nameVars>>

NextSecurity == SecUsage \/ SecStart \/ SecSkipMissing \/ SecCheckFile \/ SecSummary

SpecSecurity == InitSecurity /\ [][NextSecurity]_vars

(***************************************************************************)
(* 04-check-todos.py                                                       *)
(***************************************************************************)
TodoLines ==
    { "", "x = 1",
      "// TODO: fix",
      "// TODO: Refactor auth module (Task 42)",
      "# todo fix",
      "// TODO: Fix parser (Task 7) over 3 months",
      "- [ ] write todo list",
      "- [ ] add tests",
      "TODO 1. Write docs",
      "# TODO" }

TodoPaths ==
    { "t.py", "u.py", "s.js", "notes.md", "list.txt", "lib/validators/v.py",
      "bin.py", "gone.py" }

\* TodoPattern.__init__
TodoPattern(name, valid) == [name |-> name, valid |-> valid]

\* The module-level TODO_PATTERNS list as the module builds it.
InitialTodoPatterns ==
    << TodoPattern("standard-todo", TRUE),
       TodoPattern("author-todo", TRUE),
       TodoPattern("date-todo", TRUE),
       TodoPattern("vague-todo", FALSE),
       TodoPattern("no-context-todo", FALSE),
       TodoPattern("informal-todo", FALSE),
       TodoPattern("outdated-todo", FALSE) >>

FILETYPE_PATTERNS(file_ext) ==
    CASE file_ext = "py" -> << TodoPattern("python-multiline-todo", TRUE) >>
      [] file_ext = "md" -> << TodoPattern("markdown-todo", TRUE),
                               TodoPattern("markdown-incomplete", FALSE) >>
      [] file_ext = "txt" -> << TodoPattern("plaintext-todo", TRUE) >>
      [] OTHER -> <<>>

\* f.readlines(): each line with its line end; a last piece "" is no line.
readlines(content) ==
    LET n == Len(content)
        m == IF content[n] = "" THEN n - 1 ELSE n
    IN  [i \in 1..m |-> [text |-> content[i], nl |-> i < n]]

\* pattern.pattern.search(line) for the TODO rules; line.nl says whether the
\* line still carries its "\n", which \s matches.
pattern_search(name, line) ==
    CASE name = "standard-todo" ->
             line.text \in {"// TODO: Refactor auth module (Task 42)",
                            "// TODO: Fix parser (Task 7) over 3 months"}
      [] name = "vague-todo" -> line.text \in {"// TODO: fix", "# todo fix"}
      [] name = "no-context-todo" -> line.text = "# TODO"
      [] name = "informal-todo" ->
             \/ line.text = "# todo fix"
             \/ line.text = "# TODO" /\ line.nl
      [] name = "outdated-todo" ->
             line.text = "// TODO: Fix parser (Task 7) over 3 months"
      [] name = "markdown-incomplete" ->
             line.text \in {"- [ ] write todo list", "- [ ] add tests"}
      [] name = "plaintext-todo" -> line.text = "TODO 1. Write docs"
      [] OTHER -> FALSE

\* re.search(r'TODO:\s+[A-Z].*\w', line, re.IGNORECASE)
WellFormedShape(line) ==
    line.text \in {"// TODO: fix",
                   "// TODO: Refactor auth module (Task 42)",
                   "// TODO: Fix parser (Task 7) over 3 months"}

\* 'todo' in line_stripped.lower()
ContainsTodo(text) == text \notin {"", "x = 1", "- [ ] add tests"}

\* line.strip() is empty
IsBlank(text) == text = ""

\* The rules check_file_todos tries on a file of this extension.
patterns_to_check(file_ext) == TODO_PATTERNS \o FILETYPE_PATTERNS(file_ext)

\* A mutant of the registry copy: the file type's rules are added to
\* TODO_PATTERNS itself.
RegistryAfterCheckShared(file_ext) == TODO_PATTERNS \o FILETYPE_PATTERNS(file_ext)

\* TODO_PATTERNS after a call of check_file_todos: it works on a copy.
RegistryAfterCheck(file_ext) == TODO_PATTERNS

TodoIssue(line_num, name) == [severity |-> "warning", line_num |-> line_num, name |-> name]

\* A mutant of the rule loop: a valid match clears the warnings of the line.
LineIssuesValidWins(patterns, line, line_num) ==
    LET W[k \in 0..Len(patterns)] ==
            IF k = 0 THEN <<>>
            ELSE IF pattern_search(patterns[k].name, line) /\ ~patterns[k].valid
                 THEN Append(W[k - 1], TodoIssue(line_num, patterns[k].name))
                 ELSE W[k - 1]
        found_valid_pattern ==
            \E k \in 1..Len(patterns) :
                pattern_search(patterns[k].name, line) /\ patterns[k].valid
    IN  IF found_valid_pattern THEN <<>>
        ELSE IF ContainsTodo(line.text) /\ ~WellFormedShape(line)
        THEN Append(W[Len(patterns)], TodoIssue(line_num, "invalid-todo-format"))
        ELSE W[Len(patterns)]

\* A mutant of the catch-all: it is emitted only for a line without warnings.
LineIssuesCatchAllQuiet(patterns, line, line_num) ==
    LET W[k \in 0..Len(patterns)] ==
            IF k = 0 THEN <<>>
            ELSE IF pattern_search(patterns[k].name, line) /\ ~patterns[k].valid
                 THEN Append(W[k - 1], TodoIssue(line_num, patterns[k].name))
                 ELSE W[k - 1]
        found_valid_pattern ==
            \E k \in 1..Len(patterns) :
                pattern_search(patterns[k].name, line) /\ patterns[k].valid
    IN  IF /\ ContainsTodo(line.text) /\ ~found_valid_pattern /\ ~WellFormedShape(line)
           /\ W[Len(patterns)] = <<>>
        THEN Append(W[Len(patterns)], TodoIssue(line_num, "invalid-todo-format"))
        ELSE W[Len(patterns)]

\* The issues of one line that passed the 'todo' pre-filter.
LineIssues(patterns, line, line_num) ==
    LET W[k \in 0..Len(patterns)] ==
            IF k = 0 THEN <<>>
            ELSE IF pattern_search(patterns[k].name, line) /\ ~patterns[k].valid
                 THEN Append(W[k - 1], TodoIssue(line_num, patterns[k].name))
                 ELSE W[k - 1]
        found_valid_pattern ==
            \E k \in 1..Len(patterns) :
                pattern_search(patterns[k].name, line) /\ patterns[k].valid
    IN  IF ContainsTodo(line.text) /\ ~found_valid_pattern /\ ~WellFormedShape(line)
        THEN Append(W[Len(patterns)], TodoIssue(line_num, "invalid-todo-format"))
        ELSE W[Len(patterns)]

\* A mutant of the TODO scan: a line that the security allowlist accepts, by
\* its text or by the file's path, is skipped.
check_file_todos_filtered(filepath) ==
    IF ~os_path_exists(filepath) THEN <<>>
    ELSE IF ~fs[filepath].decodable THEN <<>>
    ELSE LET patterns == patterns_to_check(get_file_extension(filepath))
             lines == readlines(fs[filepath].content)
             L[n \in 0..Len(lines)] ==
                 IF n = 0 THEN <<>>
                 ELSE IF \/ IsBlank(lines[n].text)
                         \/ ~ContainsTodo(lines[n].text)
                         \/ is_allowlisted_line(lines[n].text, filepath)
                      THEN L[n - 1]
                      ELSE L[n - 1] \o LineIssues(patterns, lines[n], n)
         IN  L[Len(lines)]

\* A mutant of the TODO scan: every line is tried against the rules.
check_file_todos_every_line(filepath) ==
    IF ~os_path_exists(filepath) THEN <<>>
    ELSE IF ~fs[filepath].decodable THEN <<>>
    ELSE LET patterns == patterns_to_check(get_file_extension(filepath))
             lines == readlines(fs[filepath].content)
             L[n \in 0..Len(lines)] ==
                 IF n = 0 THEN <<>>
                 ELSE L[n - 1] \o LineIssues(patterns, lines[n], n)
         IN  L[Len(lines)]

check_file_todos(filepath) ==
    IF ~os_path_exists(filepath) THEN <<>>
    ELSE IF ~fs[filepath].decodable THEN <<>>
    ELSE LET patterns == patterns_to_check(get_file_extension(filepath))
             lines == readlines(fs[filepath].content)
             L[n \in 0..Len(lines)] ==
                 IF n = 0 THEN <<>>
                 ELSE IF IsBlank(lines[n].text) \/ ~ContainsTodo(lines[n].text)
                      THEN L[n - 1]
                      ELSE L[n - 1] \o LineIssues(patterns, lines[n], n)
         IN  L[Len(lines)]

\* len(re.findall(r'todo', content, re.IGNORECASE))
todo_count(content) == Cardinality({i \in 1..Len(content) : ContainsTodo(content[i])})

\* A mutant of the statistics: the 'most' file is the one with most issues.
analyze_todo_stats_by_issues(paths) ==
    LET start == [total_todos |-> 0, valid_todos |-> 0, invalid_todos |-> 0,
                  files_with_todos |-> 0, most_todos_file |-> "",
                  most_todos_count |-> 0]
        Step(s, filepath) ==
            IF ~os_path_exists(filepath) \/ ~fs[filepath].decodable THEN s
            ELSE LET n == todo_count(fs[filepath].content)
                     v == Len(check_file_todos(filepath))
                     s1 == IF n > 0
                           THEN [s EXCEPT !.files_with_todos = @ + 1,
                                          !.total_todos = @ + n]
                           ELSE s
                     s2 == IF v > 0 /\ v > s.most_todos_count
                           THEN [s1 EXCEPT !.most_todos_count = v,
                                           !.most_todos_file = filepath]
                           ELSE s1
                 IN  [s2 EXCEPT !.invalid_todos = @ + v]
        A[k \in 0..Len(paths)] == IF k = 0 THEN start ELSE Step(A[k - 1], paths[k])
        end == A[Len(paths)]
    IN  [end EXCEPT !.valid_todos = end.total_todos - end.invalid_todos]

analyze_todo_stats(paths) ==
    LET start == [total_todos |-> 0, valid_todos |-> 0, invalid_todos |-> 0,
                  files_with_todos |-> 0, most_todos_file |-> "",
                  most_todos_count |-> 0]
        Step(s, filepath) ==
            IF ~os_path_exists(filepath) \/ ~fs[filepath].decodable THEN s
            ELSE LET n == todo_count(fs[filepath].content)
                     s1 == IF n > 0
                           THEN [s EXCEPT !.files_with_todos = @ + 1,
                                          !.total_todos = @ + n]
                           ELSE s
                     s2 == IF n > 0 /\ n > s.most_todos_count
                           THEN [s1 EXCEPT !.most_todos_count = n,
                                           !.most_todos_file = filepath]
                           ELSE s1
                 IN  [s2 EXCEPT !.invalid_todos = @ + Len(check_file_todos(filepath))]
        A[k \in 0..Len(paths)] == IF k = 0 THEN start ELSE Step(A[k - 1], paths[k])
        end == A[Len(paths)]
    IN  [end EXCEPT !.valid_todos = end.total_todos - end.invalid_todos]

\* The format issues main tolerates: total_issues > 10 fails.
MaxFormatIssues == 10

\* A mutant of the exit decision: any issue fails.
TodoExitAny(issue_count) == IF issue_count > 0 THEN 1 ELSE 0

TodoExit(issue_count) == IF issue_count > MaxFormatIssues THEN 1 ELSE 0

\* [f for f in sys.argv[1:] if os.path.exists(f)]
ExistingPaths(paths) ==
    LET E[k \in 0..Len(paths)] ==
            IF k = 0 THEN <<>>
            ELSE IF os_path_exists(paths[k]) THEN Append(E[k - 1], paths[k])
            ELSE E[k - 1]
    IN  E[Len(paths)]

TodoFixture ==
    [p \in TodoPaths |->
        CASE p = "t.py" -> TextFile(<<"# todo fix", "# todo fix">>)
          [] p = "u.py" -> TextFile(<<"# todo fix", "// TODO: fix">>)
          [] p = "s.js" -> TextFile(<<"// TODO: fix", "x = 1">>)
          [] p = "notes.md" ->
                 TextFile(<<"- [ ] add tests", "// TODO: Refactor auth module (Task 42)">>)
          [] p = "list.txt" -> TextFile(<<"TODO 1. Write docs", "">>)
          [] p = "lib/validators/v.py" -> TextFile(<<"// TODO: fix", "">>)
          [] p = "bin.py" -> Undecodable
          [] OTHER -> Missing]

InitTodo ==
    /\ script = CheckTodos
    /\ \/ /\ fs = TodoFixture
          /\ argv \in SeqsUpTo(TodoPaths, MaxArgs)
       \/ \E p \in TodoPaths :
          \E f \in {Undecodable}
                   \cup {TextFile(c) : c \in NonEmptySeqsUpTo(TodoLines, MaxLines)} :
             /\ fs = OneFile(TodoPaths, p, f)
             /\ argv = <<p>>
    /\ pc = "start"
    /\ idx = 0
    /\ exit_code = NoExit
    /\ raised = "none"
    /\ IdleGateway
    /\ IdleMonitor
    /\ issues = <<>>
    /\ total_issues = 0
    /\ files_with_issues = 0
    /\ filepaths = <<>>
    /\ stats = Null
    /\ TODO_PATTERNS = InitialTodoPatterns
    /\ IdleSecurity
    /\ IdleNaming

\* len(sys.argv) < 2: usage, exit 1
TodoUsage ==
    /\ script = CheckTodos
    /\ pc = "start"
    /\ Len(argv) < 1
    /\ pc' = "done"
    /\ exit_code' = 1
    /\ UNCHANGED <<serviceVars, script, fs, argv, idx, raised, issues, secVars, todoVars, nameVars>>

\* No argument names an existing file: "No valid files provided", exit 0
TodoNoFiles ==
    /\ script = CheckTodos
    /\ pc = "start"
    /\ Len(argv) >= 1
    /\ ExistingPaths(argv) = <<>>
    /\ filepaths' = <<>>
    /\ pc' = "done"
    /\ exit_code' = 0
    /\ UNCHANGED <<serviceVars, script, fs, argv, idx, raised, issues, secVars, total_issues,
                   files_with_issues, stats, TODO_PATTERNS, nameVars>>

TodoStart ==
    /\ script = CheckTodos
    /\ pc = "start"
    /\ Len(argv) >= 1
    /\ ExistingPaths(argv) # <<>>
    /\ filepaths' = ExistingPaths(argv)
    /\ total_issues' = 0
    /\ files_with_issues' = 0
    /\ idx' = 1
    /\ pc' = "loop"
    /\ UNCHANGED <<serviceVars, script, fs, argv, exit_code, raised, issues, secVars, stats,
                   TODO_PATTERNS, nameVars>>

\* One pass of main's loop: scan a file, count its issues.
TodoCheckFile ==
    /\ script = CheckTodos
    /\ pc = "loop"
    /\ idx <= Len(filepaths)
    /\ LET found == check_file_todos(filepaths[idx])
       IN  /\ issues' = found
           /\ files_with_issues' = IF found # <<>> THEN files_with_issues + 1
                                   ELSE files_with_issues
           /\ total_issues' = total_issues + Len(found)
    /\ TODO_PATTERNS' = RegistryAfterCheck(get_file_extension(filepaths[idx]))
    /\ idx' = idx + 1
    /\ UNCHANGED <<serviceVars, script, fs, argv, pc, exit_code, raised, secVars, filepaths, stats, nameVars>>

TodoStats ==
    /\ script = CheckTodos
    /\ pc = "loop"
    /\ idx > Len(filepaths)
    /\ stats' = analyze_todo_stats(filepaths)
    /\ pc' = "report"
    /\ UNCHANGED <<serviceVars, script, fs, argv, idx, exit_code, raised, issues, secVars, total_issues,
                   files_with_issues, filepaths, TODO_PATTERNS, nameVars>>

TodoFinish ==
    /\ script = CheckTodos
    /\ pc = "report"
    /\ exit_code' = TodoExit(total_issues)
    /\ pc' = "done"
    /\ UNCHANGED <<serviceVars, script, fs, argv, idx, raised, issues, secVars, todoVars, nameVars>>

NextTodo ==
    TodoUsage \/ TodoNoFiles \/ TodoStart \/ TodoCheckFile \/ TodoStats \/ TodoFinish

SpecTodo == InitTodo /\ [][NextTodo]_vars

(***************************************************************************)
(* The directory tree and the configuration file of 01-validate-naming.py  *)
(* and 02-validate-extensions.py.  A path is the sequence of its names     *)
(* below the working directory; <<>> is '.'.                               *)
(***************************************************************************)
MaxEntries == 3
MaxDepth == 3

DirNames == {"10-documentation", "documentation", "node_modules"}
FileNames == {"01-overview.txt", "overview.txt", ".gitkeep", ".env", "01-tool.exe"}

\* The order in which a directory lists its entries.
ListingOrder ==
    << "10-documentation", "documentation", "node_modules",
       "01-overview.txt", "overview.txt", ".gitkeep", ".env", "01-tool.exe" >>

Listing(names) == SelectSeq(ListingOrder, LAMBDA n : n \in names)

IsDir(path) == path = <<>> \/ path[Len(path)] \in DirNames

\* file_name.startswith('.')
StartsWithDot(file_name) == file_name \in {".gitkeep", ".env"}

Front(path) == SubSeq(path, 1, Len(path) - 1)
Children(tree, dir) == {p \in tree : Len(p) = Len(dir) + 1 /\ Front(p) = dir}
ChildDirs(tree, dir) == {p[Len(p)] : p \in {q \in Children(tree, dir) : IsDir(q)}}
ChildFiles(tree, dir) == {p[Len(p)] : p \in {q \in Children(tree, dir) : ~IsDir(q)}}

\* The trees of at most MaxEntries entries, none deeper than MaxDepth.
Trees ==
    LET Addable(t) ==
            {Append(d, n) : d \in {q \in t \cup {<<>>} : IsDir(q) /\ Len(q) < MaxDepth},
                            n \in DirNames \cup FileNames} \ t
        T[k \in 0..MaxEntries] ==
            IF k = 0 THEN {{}}
            ELSE T[k - 1] \cup UNION {{t \cup {p} : p \in Addable(t)} : t \in T[k - 1]}
    IN  T[MaxEntries]

FolderRegex == "^\\d{2}-[a-z][a-z0-9-]*$"
FileRegex == "^\\d{2}-[a-z][a-z0-9-]*\\."
BadRegex == "["

\* The embedded default of 01-validate-naming.py's load_config.
DefaultNamingConfig ==
    [folder_patterns |-> [required_prefix |-> FolderRegex],
     file_patterns |->
         [required_prefix |-> FileRegex,
          allowed_extensions |->
              <<".txt", ".ts", ".js", ".py", ".md", ".json", ".yml", ".yaml">>],
     exclusions |-> <<".git", ".claude", "node_modules", ".venv", "__pycache__",
                      ".pytest_cache", ".mypy_cache", "dist", "build">>,
     enforcement_level |-> "error"]

\* The embedded default of 02-validate-extensions.py's load_config: the dict's
\* items in insertion order.
DefaultFolderRules ==
    << [folder |-> "10-documentation", allowed |-> <<".txt", ".md">>],
       [folder |-> "20-architecture",
        allowed |-> <<".txt", ".md", ".json", ".yml", ".yaml">>],
       [folder |-> "30-configuration",
        allowed |-> <<".ts", ".js", ".json", ".yml", ".yaml", ".env">>],
       [folder |-> "40-integrations",
        allowed |-> <<".ts", ".js", ".json", ".yml", ".yaml">>],
       [folder |-> "50-scripts",
        allowed |-> <<".py", ".js", ".ts", ".sh", ".yml", ".yaml">>],
       [folder |-> "60-security",
        allowed |-> <<".txt", ".md", ".yml", ".yaml", ".json">>],
       [folder |-> "70-testing",
        allowed |-> <<".py", ".js", ".ts", ".json", ".yml", ".yaml">>],
       [folder |-> "80-deployment",
        allowed |-> <<".yml", ".yaml", ".json", ".sh", ".dockerfile">>],
       [folder |-> "90-utilities",
        allowed |-> <<".py", ".js", ".ts", ".sh", ".json", ".yml", ".yaml">>] >>

\* Configuration documents a repository may hold at 50-scripts/02-naming-config.yml.
WithLevel(level) == [DefaultNamingConfig EXCEPT !.enforcement_level = level]

WithRules(cfg, rules) ==
    [k \in DOMAIN cfg \cup {"folder_type_rules"} |->
        IF k = "folder_type_rules" THEN rules ELSE cfg[k]]

WithLegacy(cfg, legacy_files, legacy_folders) ==
    [k \in DOMAIN cfg \cup {"legacy_exemptions", "legacy_folder_exemptions"} |->
        CASE k = "legacy_exemptions" -> legacy_files
          [] k = "legacy_folder_exemptions" -> legacy_folders
          [] OTHER -> cfg[k]]

ConfigDocuments ==
    { WithRules(WithLevel("warn"),
                << [folder |-> "documentation", allowed |-> <<".txt">>] >>),
      WithRules(WithLevel("off"),
                << [folder |-> "10-documentation", allowed |-> <<".exe">>],
                   [folder |-> "documentation", allowed |-> <<".txt", ".md">>] >>),
      WithLegacy(WithLevel("error"), <<"overview.txt">>, <<"documentation">>),
      [WithLevel("error") EXCEPT !.folder_patterns.required_prefix = BadRegex],
      [WithLevel("off") EXCEPT !.folder_patterns.required_prefix = BadRegex],
      [WithLevel("warn") EXCEPT !.file_patterns.required_prefix = BadRegex] }

\* The states of the configuration file: absent; present and not openable;
\* present and not YAML; present and empty (yaml.safe_load gives None);
\* present with a document.
ConfigFiles ==
    { [state |-> s, data |-> Null] : s \in {"absent", "unreadable", "malformed", "empty"} }
    \cup { [state |-> "ok", data |-> d] : d \in ConfigDocuments }

\* config_path.exists(); open(); yaml.safe_load(f): the document, None, or the
\* exception open or the parser raises.
LoadOutcome(config_file) ==
    CASE config_file.state = "unreadable" -> [raises |-> "PermissionError", value |-> Null]
      [] config_file.state = "malformed" -> [raises |-> "YAMLError", value |-> Null]
      [] config_file.state = "empty" -> [raises |-> "none", value |-> Null]
      [] OTHER -> [raises |-> "none", value |-> config_file.data]

Get(cfg, key, default) == IF key \in DOMAIN cfg THEN cfg[key] ELSE default

(***************************************************************************)
(* 01-validate-naming.py                                                   *)
(***************************************************************************)
naming_load_config(config_file) ==
    IF config_file.state # "absent"
    THEN LoadOutcome(config_file)
    ELSE [raises |-> "none", value |-> DefaultNamingConfig]

\* exclusion in path_str, for one name of the path
NameContains(name, exclusion) ==
    \/ name = "node_modules" /\ exclusion = "node_modules"
    \/ name = ".gitkeep" /\ exclusion = ".git"

\* A mutant of is_excluded: no path is excluded.
is_excluded_never(path, exclusions) == FALSE

is_excluded(path, exclusions) ==
    \E k \in 1..Len(exclusions) : \E i \in 1..Len(path) :
        NameContains(path[i], exclusions[k])

is_legacy_exempted(path, legacy_exemptions) == In(path[Len(path)], legacy_exemptions)

is_legacy_folder_exempted(folder_name, legacy_folder_exemptions) ==
    In(folder_name, legacy_folder_exemptions)

\* re.match(pattern, name) is not None, for a pattern that compiles
re_match(pattern, name) ==
    CASE pattern = FolderRegex -> name = "10-documentation"
      [] pattern = FileRegex -> name \in {"01-overview.txt", "01-tool.exe"}
      [] OTHER -> FALSE

\* re.match raises re.error for a pattern that does not compile
Compiles(pattern) == pattern # BadRegex

\* Path(file_name).suffix
Suffix(file_name) ==
    CASE file_name \in {"01-overview.txt", "overview.txt"} -> ".txt"
      [] file_name = "01-tool.exe" -> ".exe"
      [] OTHER -> ""

validate_folder_name(folder_name, cfg) ==
    re_match(cfg.folder_patterns.required_prefix, folder_name)

validate_file_name(file_name, cfg) ==
    /\ re_match(cfg.file_patterns.required_prefix, file_name)
    /\ In(Suffix(file_name), cfg.file_patterns.allowed_extensions)

\* if root != '.': the folders listed in a directory are checked
ChecksFoldersOf(root) == root # <<>>

\* The folders one os.walk step validates.
FoldersToValidate(tree, root, cfg) ==
    IF ~ChecksFoldersOf(root) THEN {}
    ELSE {d \in ChildDirs(tree, root) :
             /\ ~is_excluded(Append(root, d), cfg.exclusions)
             /\ ~is_legacy_folder_exempted(d, Get(cfg, "legacy_folder_exemptions", <<>>))}

\* A mutant of the file loop: hidden files are validated like the others.
FilesToValidateHidden(tree, root, cfg) ==
    {f \in ChildFiles(tree, root) :
        /\ ~is_excluded(Append(root, f), cfg.exclusions)
        /\ ~is_legacy_exempted(Append(root, f), Get(cfg, "legacy_exemptions", <<>>))}

\* The files one os.walk step validates.
FilesToValidate(tree, root, cfg) ==
    {f \in ChildFiles(tree, root) :
        /\ ~is_excluded(Append(root, f), cfg.exclusions)
        /\ ~StartsWithDot(f)
        /\ ~is_legacy_exempted(Append(root, f), Get(cfg, "legacy_exemptions", <<>>))}

\* One pass of scan_directory's loop over os.walk, for directory root.
WalkStep(tree, root, cfg) ==
    IF is_excluded(root, cfg.exclusions) THEN [raises |-> "none", found |-> <<>>]
    ELSE LET ds == Listing(FoldersToValidate(tree, root, cfg))
             fls == Listing(FilesToValidate(tree, root, cfg))
             bad_ds == SelectSeq(ds, LAMBDA d : ~validate_folder_name(d, cfg))
             bad_fs == SelectSeq(fls, LAMBDA f : ~validate_file_name(f, cfg))
         IN  IF \/ ds # <<>> /\ ~Compiles(cfg.folder_patterns.required_prefix)
                \/ fls # <<>> /\ ~Compiles(cfg.file_patterns.required_prefix)
             THEN [raises |-> "re.error", found |-> <<>>]
             ELSE [raises |-> "none",
                   found |->
                       [i \in 1..Len(bad_ds) |->
                           [type |-> "folder", path |-> Append(root, bad_ds[i])]]
                       \o [i \in 1..Len(bad_fs) |->
                           [type |-> "file", path |-> Append(root, bad_fs[i])]]]

\* The directories os.walk yields after root, before root's later siblings.
SubWalk(tree, root) ==
    LET ds == Listing(ChildDirs(tree, root))
    IN  [i \in 1..Len(ds) |-> Append(root, ds[i])]

\* A mutant of main's result: violations fail the run at every level.
NamingResultAlways(level, found) == IF found # <<>> THEN 1 ELSE 0

\* main's return value once the scan is over.
NamingResult(level, found) ==
    IF found # <<>> THEN (IF level = "error" THEN 1 ELSE 0) ELSE 0

IdleRun ==
    /\ argv = <<>>
    /\ idx = 0
    /\ issues = <<>>
    /\ IdleSecurity
    /\ IdleTodo

InitNaming ==
    /\ script = ValidateNaming
    /\ \E cf \in ConfigFiles : \E t \in Trees : fs = [config_file |-> cf, tree |-> t]
    /\ pc = "start"
    /\ exit_code = NoExit
    /\ raised = "none"
    /\ IdleGateway
    /\ IdleMonitor
    /\ IdleRun
    /\ IdleNaming

idleVars == <<argv, idx, issues, secVars, todoVars>>

\* config = load_config(), which open or the YAML parser may end
NamingLoadRaises ==
    /\ script = ValidateNaming
    /\ pc = "start"
    /\ naming_load_config(fs.config_file).raises # "none"
    /\ raised' = naming_load_config(fs.config_file).raises
    /\ exit_code' = 1
    /\ pc' = "done"
    /\ UNCHANGED <<serviceVars, script, fs, idleVars, nameVars>>

NamingLoad ==
    /\ script = ValidateNaming
    /\ pc = "start"
    /\ naming_load_config(fs.config_file).raises = "none"
    /\ config' = naming_load_config(fs.config_file).value
    /\ pc' = "loaded"
    /\ UNCHANGED <<serviceVars, script, fs, exit_code, raised, idleVars, violations, walk>>

\* config['enforcement_level'] of None
NamingNoConfig ==
    /\ script = ValidateNaming
    /\ pc = "loaded"
    /\ config = Null
    /\ raised' = "TypeError"
    /\ exit_code' = 1
    /\ pc' = "done"
    /\ UNCHANGED <<serviceVars, script, fs, idleVars, nameVars>>

\* enforcement_level == 'off': return 0
NamingOff ==
    /\ script = ValidateNaming
    /\ pc = "loaded"
    /\ config # Null
    /\ config.enforcement_level = "off"
    /\ exit_code' = 0
    /\ pc' = "done"
    /\ UNCHANGED <<serviceVars, script, fs, raised, idleVars, nameVars>>

NamingScan ==
    /\ script = ValidateNaming
    /\ pc = "loaded"
    /\ config # Null
    /\ config.enforcement_level # "off"
    /\ violations' = <<>>
    /\ walk' = << <<>> >>
    /\ pc' = "scan"
    /\ UNCHANGED <<serviceVars, script, fs, exit_code, raised, idleVars, config>>

NamingWalkRaises ==
    /\ script = ValidateNaming
    /\ pc = "scan"
    /\ walk # <<>>
    /\ WalkStep(fs.tree, Head(walk), config).raises # "none"
    /\ raised' = WalkStep(fs.tree, Head(walk), config).raises
    /\ exit_code' = 1
    /\ pc' = "done"
    /\ UNCHANGED <<serviceVars, script, fs, idleVars, nameVars>>

NamingWalk ==
    /\ script = ValidateNaming
    /\ pc = "scan"
    /\ walk # <<>>
    /\ WalkStep(fs.tree, Head(walk), config).raises = "none"
    /\ violations' = violations \o WalkStep(fs.tree, Head(walk), config).found
    /\ walk' = SubWalk(fs.tree, Head(walk)) \o Tail(walk)
    /\ UNCHANGED <<serviceVars, script, fs, pc, exit_code, raised, idleVars, config>>

NamingReturn ==
    /\ script = ValidateNaming
    /\ pc = "scan"
    /\ walk = <<>>
    /\ exit_code' = NamingResult(config.enforcement_level, violations)
    /\ pc' = "done"
    /\ UNCHANGED <<serviceVars, script, fs, raised, idleVars, nameVars>>

NextNaming ==
    \/ NamingLoadRaises \/ NamingLoad \/ NamingNoConfig \/ NamingOff \/ NamingScan
    \/ NamingWalkRaises \/ NamingWalk \/ NamingReturn

SpecNaming == InitNaming /\ [][NextNaming]_vars

(***************************************************************************)
(* 02-validate-extensions.py                                               *)
(***************************************************************************)
\* A mutant of load_config: the rules apply only at enforcement_level 'error'.
ext_load_config_levelled(config_file) ==
    IF config_file.state = "absent"
    THEN [raises |-> "none", value |-> DefaultFolderRules]
    ELSE LET loaded == LoadOutcome(config_file)
         IN  IF loaded.raises # "none" THEN loaded
             ELSE IF loaded.value = Null
                  THEN [raises |-> "AttributeError", value |-> Null]
                  ELSE IF loaded.value.enforcement_level # "error"
                       THEN [raises |-> "none", value |-> <<>>]
                       ELSE [raises |-> "none",
                             value |-> Get(loaded.value, "folder_type_rules", <<>>)]

\* A mutant of load_config: a document without folder_type_rules gets the
\* default rules.
ext_load_config_merged(config_file) ==
    IF config_file.state = "absent"
    THEN [raises |-> "none", value |-> DefaultFolderRules]
    ELSE LET loaded == LoadOutcome(config_file)
         IN  IF loaded.raises # "none" THEN loaded
             ELSE IF loaded.value = Null
                  THEN [raises |-> "AttributeError", value |-> Null]
                  ELSE [raises |-> "none",
                        value |-> Get(loaded.value, "folder_type_rules",
                                      DefaultFolderRules)]

\* load_config: config.get('folder_type_rules', {}) of the document, or the default
ext_load_config(config_file) ==
    IF config_file.state = "absent"
    THEN [raises |-> "none", value |-> DefaultFolderRules]
    ELSE LET loaded == LoadOutcome(config_file)
         IN  IF loaded.raises # "none" THEN loaded
             ELSE IF loaded.value = Null
                  THEN [raises |-> "AttributeError", value |-> Null]
                  ELSE [raises |-> "none",
                        value |-> Get(loaded.value, "folder_type_rules", <<>>)]

\* folder_path.rglob('*'): every path below dir
RECURSIVE rglob(_, _)
rglob(tree, dir) ==
    LET names == Listing(ChildDirs(tree, dir) \cup ChildFiles(tree, dir))
        R[i \in 0..Len(names)] ==
            IF i = 0 THEN <<>>
            ELSE R[i - 1] \o << Append(dir, names[i]) >>
                          \o (IF names[i] \in DirNames
                              THEN rglob(tree, Append(dir, names[i])) ELSE <<>>)
    IN  R[Len(names)]

\* A mutant of the folder scan: only the files directly in the folder are looked at.
FolderViolationsShallow(tree, rule) ==
    LET bad == SelectSeq(rglob(tree, <<rule.folder>>),
                         LAMBDA p : /\ ~IsDir(p)
                                    /\ Len(p) = 2
                                    /\ ~StartsWithDot(p[Len(p)])
                                    /\ ~In(Suffix(p[Len(p)]), rule.allowed))
    IN  [i \in 1..Len(bad) |->
            [folder |-> rule.folder, file |-> bad[i],
             extension |-> Suffix(bad[i][Len(bad[i])]), allowed |-> rule.allowed]]

\* The violations one configured folder adds.
FolderViolations(tree, rule) ==
    LET bad == SelectSeq(rglob(tree, <<rule.folder>>),
                         LAMBDA p : /\ ~IsDir(p)
                                    /\ ~StartsWithDot(p[Len(p)])
                                    /\ ~In(Suffix(p[Len(p)]), rule.allowed))
    IN  [i \in 1..Len(bad) |->
            [folder |-> rule.folder, file |-> bad[i],
             extension |-> Suffix(bad[i][Len(bad[i])]), allowed |-> rule.allowed]]

\* main's return value
ExtResult(found) == IF found # <<>> THEN 1 ELSE 0

InitExt ==
    /\ script = ValidateExtensions
    /\ \E cf \in ConfigFiles : \E t \in Trees : fs = [config_file |-> cf, tree |-> t]
    /\ pc = "start"
    /\ exit_code = NoExit
    /\ raised = "none"
    /\ IdleGateway
    /\ IdleMonitor
    /\ IdleRun
    /\ IdleNaming

extIdle == <<argv, issues, secVars, todoVars, walk>>

ExtLoadRaises ==
    /\ script = ValidateExtensions
    /\ pc = "start"
    /\ ext_load_config(fs.config_file).raises # "none"
    /\ raised' = ext_load_config(fs.config_file).raises
    /\ exit_code' = 1
    /\ pc' = "done"
    /\ UNCHANGED <<serviceVars, script, fs, idx, extIdle, config, violations>>

\* folder_rules = load_config(); violations = []
ExtLoad ==
    /\ script = ValidateExtensions
    /\ pc = "start"
    /\ ext_load_config(fs.config_file).raises = "none"
    /\ config' = ext_load_config(fs.config_file).value
    /\ violations' = <<>>
    /\ idx' = 1
    /\ pc' = "scan"
    /\ UNCHANGED <<serviceVars, script, fs, exit_code, raised, extIdle>>

\* if not folder_path.exists(): continue
ExtSkipFolder ==
    /\ script = ValidateExtensions
    /\ pc = "scan"
    /\ idx <= Len(config)
    /\ <<config[idx].folder>> \notin fs.tree
    /\ idx' = idx + 1
    /\ UNCHANGED <<serviceVars, script, fs, pc, exit_code, raised, extIdle, config, violations>>

ExtScanFolder ==
    /\ script = ValidateExtensions
    /\ pc = "scan"
    /\ idx <= Len(config)
    /\ <<config[idx].folder>> \in fs.tree
    /\ violations' = violations \o FolderViolations(fs.tree, config[idx])
    /\ idx' = idx + 1
    /\ UNCHANGED <<serviceVars, script, fs, pc, exit_code, raised, extIdle, config>>

ExtReturn ==
    /\ script = ValidateExtensions
    /\ pc = "scan"
    /\ idx > Len(config)
    /\ exit_code' = ExtResult(violations)
    /\ pc' = "done"
    /\ UNCHANGED <<serviceVars, script, fs, idx, raised, extIdle, config, violations>>

NextExt == ExtLoadRaises \/ ExtLoad \/ ExtSkipFolder \/ ExtScanFolder \/ ExtReturn

SpecExt == InitExt /\ [][NextExt]_vars

(***************************************************************************)
(* api_gateway.py: the HTTP service in front of the managed database.      *)
(* A header value or a secret is the sequence of its pieces; the pieces    *)
(* are chosen so that 'Bearer ' occurs in a text only as a whole piece and *)
(* two texts are equal exactly when their piece sequences are.  A row of   *)
(* the models table is identified by a number; the database assigns the    *)
(* id column itself, from 1, so no row has id 0.  A database call that     *)
(* raises leaves its table as it was.  Requests are handled one at a time. *)
(***************************************************************************)
ApiGateway == "api_gateway.py"

\* batch_size = 100
BATCH_SIZE == 100
\* The largest number of batches a supplied dataset needs.
MaxBatches == 2
\* The number of requests a gateway process is followed through.
MaxRequests == 2

\* None, of the client that could not be created (line 68)
None == "None"
Client == "Client"

Bearer == "Bearer "
NoHeader == [present |-> FALSE, value |-> <<>>]
Header(text) == [present |-> TRUE, value |-> text]

\* The configured secret: any non-empty text (lines 37-39).
Secrets == {<<"key">>, <<Bearer, "key">>}

\* Authorization headers a client may send.
Headers ==
    {NoHeader, Header(<<>>), Header(<<Bearer>>), Header(<<"key">>),
     Header(<<Bearer, "key">>), Header(<<Bearer, "key", "key">>),
     Header(<<Bearer, Bearer, "key">>), Header(<<Bearer, "key", Bearer>>),
     Header(<<"key", Bearer, "key">>)}

\* auth_header.startswith('Bearer ')
startswith_Bearer(text) == Len(text) >= 1 /\ text[1] = Bearer

\* auth_header.replace('Bearer ', ''): every occurrence is removed
replace_Bearer(text) == SelectSeq(text, LAMBDA piece : piece # Bearer)

verify_api_key(auth_header, secret) ==
    IF ~auth_header.present \/ auth_header.value = <<>>
       \/ ~startswith_Bearer(auth_header.value)
    THEN FALSE
    ELSE replace_Bearer(auth_header.value) = secret

\* A dataset of n models.
Dataset(n) == [i \in 1..n |-> i]
\* The sizes of the supplied datasets: around the batch boundaries.
ModelCounts ==
    {1} \cup {k * BATCH_SIZE : k \in 1..(MaxBatches - 1)}
        \cup {k * BATCH_SIZE + 1 : k \in 1..(MaxBatches - 1)}
\* What the table may hold when the gateway starts.
OldModels == <<901, 902>>

\* The body of a request: not JSON (request.json raises or is None), or a
\* JSON object; an absent 'models' or 'urls' key reads as the empty list.
NotJson == [kind |-> "not_json"]
ReplaceBodies ==
    {NotJson, [kind |-> "object", models |-> <<>>]}
        \cup {[kind |-> "object", models |-> Dataset(n)] : n \in ModelCounts}
PendingUrl == [url |-> "u1", processing_status |-> "pending"]
DoneUrl == [url |-> "u2", processing_status |-> "done"]
InsertBodies ==
    {NotJson, [kind |-> "object", urls |-> <<>>],
     [kind |-> "object", urls |-> <<PendingUrl>>],
     [kind |-> "object", urls |-> <<PendingUrl, DoneUrl>>]}
\* request.json.get('limit', 10)
ProcessBodies ==
    {NotJson, [kind |-> "object", limit |-> 10], [kind |-> "object", limit |-> 1]}

Min(a, b) == IF a < b THEN a ELSE b

\* for i in range(0, len(models_data), batch_size): models_data[i:i+batch_size]
Batches(models_data) == (Len(models_data) + BATCH_SIZE - 1) \div BATCH_SIZE
Batch(models_data, k) ==
    SubSeq(models_data, (k - 1) * BATCH_SIZE + 1,
           Min(k * BATCH_SIZE, Len(models_data)))

\* The first `done` batches, inserted one after the other.
Inserted(models_data, done) ==
    LET A[k \in 0..done] ==
            IF k = 0 THEN <<>> ELSE A[k - 1] \o Batch(models_data, k)
    IN  A[done]

Unauthorized == [status |-> 401, error |-> "Unauthorized"]
ServerError == [status |-> 500, error |-> "exception"]

\* replace_all_models: fail is the database call that raises (0: none).
\* The result is the response, the models table and the calls executed.
replace_all_models(req, secret, client, table, fail) ==
    IF ~verify_api_key(req.authorization, secret)
    THEN [response |-> Unauthorized, table |-> table, calls |-> <<>>]
    ELSE IF req.json.kind # "object"
    THEN [response |-> ServerError, table |-> table, calls |-> <<>>]
    ELSE LET models_data == req.json.models
             batches == Batches(models_data)
         IN  IF models_data = <<>>
             THEN [response |-> [status |-> 400, error |-> "No models data provided"],
                   table |-> table, calls |-> <<>>]
             ELSE IF client = None
             THEN [response |-> ServerError, table |-> table, calls |-> <<>>]
             ELSE IF fail = 1
             THEN [response |-> ServerError, table |-> table, calls |-> <<"delete">>]
             ELSE IF fail >= 2 /\ fail - 1 <= batches
             THEN [response |-> ServerError,
                   table |-> Inserted(models_data, fail - 2),
                   calls |-> <<"delete">> \o [k \in 1..(fail - 1) |-> "insert"]]
             ELSE [response |->
                       [status |-> 200, operation |-> "replace_all",
                        models_inserted |-> Len(Inserted(models_data, batches)),
                        batches_processed |->
                            (Len(models_data) + BATCH_SIZE - 1) \div BATCH_SIZE],
                   table |-> Inserted(models_data, batches),
                   calls |-> <<"delete">> \o [k \in 1..batches |-> "insert"]]

insert_staging_data(req, secret, client, table, fail) ==
    IF ~verify_api_key(req.authorization, secret)
    THEN [response |-> Unauthorized, table |-> table, calls |-> <<>>]
    ELSE IF req.json.kind # "object"
    THEN [response |-> ServerError, table |-> table, calls |-> <<>>]
    ELSE LET staging_data == req.json.urls
         IN  IF staging_data = <<>>
             THEN [response |-> [status |-> 400, error |-> "No staging data provided"],
                   table |-> table, calls |-> <<>>]
             ELSE IF client = None
             THEN [response |-> ServerError, table |-> table, calls |-> <<>>]
             ELSE IF fail = 1
             THEN [response |-> ServerError, table |-> table, calls |-> <<"insert">>]
             ELSE [response |->
                       [status |-> 200, operation |-> "staging_insert",
                        records_inserted |-> Len(staging_data)],
                   table |-> table \o staging_data,
                   calls |-> <<"insert">>]

process_staging_data(req, secret, client, table, fail) ==
    IF ~verify_api_key(req.authorization, secret)
    THEN [response |-> Unauthorized, calls |-> <<>>]
    ELSE IF req.json.kind # "object" \/ client = None
    THEN [response |-> ServerError, calls |-> <<>>]
    ELSE IF fail = 1
    THEN [response |-> ServerError, calls |-> <<"select">>]
    ELSE LET pending == SelectSeq(table, LAMBDA row : row.processing_status = "pending")
         IN  [response |->
                  [status |-> 200, operation |-> "process_staging",
                   records_processed |-> Min(req.json.limit, Len(pending))],
              calls |-> <<"select">>]

InitGateway ==
    /\ script = ApiGateway
    /\ ai_models_discovery_api_secret_key \in Secrets
    /\ supabase \in {Client, None}
    /\ ai_models_discovery \in {<<>>, OldModels}
    /\ ai_models_staging = <<>>
    /\ request = Null
    /\ response = Null
    /\ db_calls = <<>>
    /\ served = 0
    /\ pc = "serving"
    /\ exit_code = NoExit
    /\ raised = "none"
    /\ fs = Null
    /\ IdleRun
    /\ IdleNaming
    /\ IdleMonitor

gatewayIdle == <<script, fs, pc, exit_code, raised, idleVars, nameVars, monitorVars,
                 ai_models_discovery_api_secret_key, supabase>>

\* GET /health
HealthCheck ==
    /\ script = ApiGateway
    /\ served < MaxRequests
    /\ request' = [endpoint |-> "/health", authorization |-> NoHeader, json |-> NotJson]
    /\ response' = IF supabase = None
                   THEN [status |-> 503, error |-> "Supabase client not initialized - check API key"]
                   ELSE [status |-> 200, operation |-> "healthy"]
    /\ db_calls' = <<>>
    /\ served' = served + 1
    /\ UNCHANGED <<gatewayIdle, ai_models_discovery, ai_models_staging>>

\* POST /api/models/replace
ReplaceAllModels ==
    /\ script = ApiGateway
    /\ served < MaxRequests
    /\ \E authorization \in Headers, json \in ReplaceBodies, fail \in 0..(MaxBatches + 1) :
          LET req == [endpoint |-> "/api/models/replace",
                      authorization |-> authorization, json |-> json]
              r == replace_all_models(req, ai_models_discovery_api_secret_key,
                                      supabase, ai_models_discovery, fail)
          IN  /\ request' = req
              /\ response' = r.response
              /\ ai_models_discovery' = r.table
              /\ db_calls' = r.calls
    /\ served' = served + 1
    /\ UNCHANGED <<gatewayIdle, ai_models_staging>>

\* POST /api/staging/insert
InsertStagingData ==
    /\ script = ApiGateway
    /\ served < MaxRequests
    /\ \E authorization \in Headers, json \in InsertBodies, fail \in 0..1 :
          LET req == [endpoint |-> "/api/staging/insert",
                      authorization |-> authorization, json |-> json]
              r == insert_staging_data(req, ai_models_discovery_api_secret_key,
                                       supabase, ai_models_staging, fail)
          IN  /\ request' = req
              /\ response' = r.response
              /\ ai_models_staging' = r.table
              /\ db_calls' = r.calls
    /\ served' = served + 1
    /\ UNCHANGED <<gatewayIdle, ai_models_discovery>>

\* POST /api/staging/process
ProcessStagingData ==
    /\ script = ApiGateway
    /\ served < MaxRequests
    /\ \E authorization \in Headers, json \in ProcessBodies, fail \in 0..1 :
          LET req == [endpoint |-> "/api/staging/process",
                      authorization |-> authorization, json |-> json]
              r == process_staging_data(req, ai_models_discovery_api_secret_key,
                                        supabase, ai_models_staging, fail)
          IN  /\ request' = req
              /\ response' = r.response
              /\ db_calls' = r.calls
    /\ served' = served + 1
    /\ UNCHANGED <<gatewayIdle, ai_models_discovery, ai_models_staging>>

NextGateway == HealthCheck \/ ReplaceAllModels \/ InsertStagingData \/ ProcessStagingData

SpecGateway == InitGateway /\ [][NextGateway]_vars

(***************************************************************************)
(* 06-dependency-monitor.py: one run of main.  A JSON value is a record    *)
(* with its kind; a JSON object of packages is a function from the names   *)
(* it holds.  An exception no handler catches ends the run with status 1.  *)
(* The listing of outdated packages only feeds the printed report.         *)
(***************************************************************************)
DependencyMonitor == "06-dependency-monitor.py"

PackageNames == {"react", "lodash", "axios"}
Versions == {"1.0.0", "1.2.0", "2.0.0"}
\* info.get('version') of an info without the key: None
NoVersion == "None"

\* from_version.split('.')[0].lstrip('v^~')
Major(version) ==
    CASE version = "1.0.0" -> "1"
      [] version = "1.2.0" -> "1"
      [] version = "2.0.0" -> "2"
      [] OTHER -> version

\* JSON objects of packages: name -> info, over any set of names.
ObjectsOver(infos) ==
    UNION {[names -> infos] : names \in SUBSET PackageNames}

\* An info of the state file: an object with or without a version, or a
\* value that is no object (null, a string).
StateInfos ==
    {[kind |-> "object", version |-> v] : v \in Versions \cup {NoVersion}}
        \cup {[kind |-> "null", version |-> NoVersion]}

\* .dependency-state.json: missing, no JSON, a JSON value that is no object,
\* or an object whose 'packages' is absent, null, an array or an object.
StateFiles ==
    {[kind |-> "missing"], [kind |-> "invalid"], [kind |-> "array"],
     [kind |-> "object", packages |-> [kind |-> "absent"]],
     [kind |-> "object", packages |-> [kind |-> "null"]],
     [kind |-> "object", packages |-> [kind |-> "array"]]}
        \cup {[kind |-> "object", packages |-> [kind |-> "object", entries |-> e]] :
                e \in ObjectsOver(StateInfos)}

\* An entry of npm's 'dependencies': an object with or without a version,
\* or a value that is no object.
NpmInfos ==
    {[kind |-> "object", version |-> v] : v \in Versions \cup {NoVersion}}
        \cup {[kind |-> "string", version |-> NoVersion]}

\* `npm list --json --depth=0`: the program cannot be started, runs out of
\* time, prints nothing, prints no JSON, prints a JSON value that is no
\* object, or prints an object with its dependencies.
NpmRuns ==
    {[kind |-> "not_found"], [kind |-> "timeout"], [kind |-> "nothing"],
     [kind |-> "invalid"], [kind |-> "array"]}
        \cup {[kind |-> "object", dependencies |-> d] : d \in ObjectsOver(NpmInfos)}

EmptyState == [kind |-> "object", packages |-> [kind |-> "absent"]]

load_previous_state(file) ==
    IF file.kind \in {"missing", "invalid"} THEN EmptyState ELSE file

\* The packages of a run of npm, or the exception that escapes.
get_installed_packages(run) ==
    CASE run.kind = "not_found" ->
             [raises |-> "FileNotFoundError", packages |-> <<>>]
      [] run.kind \in {"timeout", "nothing", "invalid"} ->
             [raises |-> "none", packages |-> <<>>]
      [] run.kind = "array" ->
             [raises |-> "AttributeError", packages |-> <<>>]
      [] OTHER ->
             IF \E name \in DOMAIN run.dependencies :
                    run.dependencies[name].kind # "object"
             THEN [raises |-> "AttributeError", packages |-> <<>>]
             ELSE [raises |-> "none",
                   packages |->
                       [name \in DOMAIN run.dependencies |->
                           [kind |-> "object",
                            version |->
                                IF run.dependencies[name].version = NoVersion
                                THEN "unknown"
                                ELSE run.dependencies[name].version]]]

\* The state main builds from the installed packages.
CurrentState(packages) ==
    [kind |-> "object", packages |-> [kind |-> "object", entries |-> packages]]

NoChanges == [raises |-> "none", added |-> <<>>, removed |-> <<>>,
              updated |-> <<>>, unchanged |-> <<>>]
Raises(exception) == [NoChanges EXCEPT !.raises = exception]

\* A mutant of the diff: every previous package counts as removed.
analyze_dependency_changes_all_removed(current, previous) ==
    IF previous.kind # "object" THEN Raises("AttributeError")
    ELSE IF previous.packages.kind \in {"null", "array"}
    THEN Raises(IF previous.packages.kind = "null"
                   /\ DOMAIN current.packages.entries # {}
                THEN "TypeError" ELSE "AttributeError")
    ELSE LET current_packages == current.packages.entries
             previous_packages == IF previous.packages.kind = "absent" THEN <<>>
                                  ELSE previous.packages.entries
             both == DOMAIN current_packages \cap DOMAIN previous_packages
         IN  IF \E name \in both : previous_packages[name].kind # "object"
             THEN Raises("AttributeError")
             ELSE [raises |-> "none",
                   added |-> [name \in DOMAIN current_packages \ DOMAIN previous_packages
                                 |-> current_packages[name]],
                   removed |-> previous_packages,
                   updated |->
                       [name \in {n \in both : previous_packages[n].version
                                                  # current_packages[n].version}
                           |-> [from |-> previous_packages[name].version,
                                to |-> current_packages[name].version,
                                info |-> current_packages[name]]],
                   unchanged |->
                       [name \in {n \in both : previous_packages[n].version
                                                  = current_packages[n].version}
                           |-> current_packages[name]]]

\* analyze_dependency_changes: the four dictionaries, or the exception.
analyze_dependency_changes(current, previous) ==
    IF previous.kind # "object" THEN Raises("AttributeError")
    ELSE IF previous.packages.kind \in {"null", "array"}
    THEN Raises(IF previous.packages.kind = "null"
                   /\ DOMAIN current.packages.entries # {}
                THEN "TypeError" ELSE "AttributeError")
    ELSE LET current_packages == current.packages.entries
             previous_packages == IF previous.packages.kind = "absent" THEN <<>>
                                  ELSE previous.packages.entries
             both == DOMAIN current_packages \cap DOMAIN previous_packages
         IN  IF \E name \in both : previous_packages[name].kind # "object"
             THEN Raises("AttributeError")
             ELSE [raises |-> "none",
                   added |-> [name \in DOMAIN current_packages \ DOMAIN previous_packages
                                 |-> current_packages[name]],
                   removed |-> [name \in DOMAIN previous_packages \ DOMAIN current_packages
                                   |-> previous_packages[name]],
                   updated |->
                       [name \in {n \in both : previous_packages[n].version
                                                  # current_packages[n].version}
                           |-> [from |-> previous_packages[name].version,
                                to |-> current_packages[name].version,
                                info |-> current_packages[name]]],
                   unchanged |->
                       [name \in {n \in both : previous_packages[n].version
                                                  = current_packages[n].version}
                           |-> current_packages[name]]]

is_major_version_change(from_version, to_version) ==
    IF from_version = NoVersion \/ to_version = NoVersion THEN FALSE
    ELSE Major(from_version) # Major(to_version)

\* The alerts of assess_security_impact, one per changed package, or the
\* exception a removed info that is no object raises.
assess_security_impact(changes) ==
    IF \E name \in DOMAIN changes.removed : changes.removed[name].kind # "object"
    THEN [raises |-> "AttributeError", alerts |-> {}]
    ELSE [raises |-> "none",
          alerts |->
              {[type |-> "package_added", package |-> name, severity |-> "info"] :
                  name \in DOMAIN changes.added}
              \cup {[type |-> "package_removed", package |-> name, severity |-> "info"] :
                       name \in DOMAIN changes.removed}
              \cup {IF is_major_version_change(changes.updated[name].from,
                                               changes.updated[name].to)
                    THEN [type |-> "major_update", package |-> name, severity |-> "warning"]
                    ELSE [type |-> "minor_update", package |-> name, severity |-> "info"] :
                       name \in DOMAIN changes.updated}]

\* monitor_dependencies up to the alerts: the results, or the exception.
monitor_dependencies(file, run) ==
    LET previous == load_previous_state(file)
        installed == get_installed_packages(run)
        current == CurrentState(installed.packages)
        changes == analyze_dependency_changes(current, previous)
        assessed == assess_security_impact(changes)
    IN  IF installed.raises # "none" THEN [raises |-> installed.raises]
        ELSE IF changes.raises # "none" THEN [raises |-> changes.raises]
        ELSE IF assessed.raises # "none" THEN [raises |-> assessed.raises]
        ELSE [raises |-> "none", changes |-> changes, alerts |-> assessed.alerts,
              current_state |-> current, previous_state |-> previous]

\* main: exit 1 on a critical alert, 0 otherwise
MonitorExit(alerts) ==
    IF \E a \in alerts : a.severity = "error" THEN 1 ELSE 0

InitMonitor ==
    /\ script = DependencyMonitor
    /\ project \in {[exists |-> FALSE, package_json |-> FALSE],
                    [exists |-> TRUE, package_json |-> FALSE],
                    [exists |-> TRUE, package_json |-> TRUE]}
    /\ state_file \in StateFiles
    /\ npm \in NpmRuns
    /\ results = Null
    /\ pc = "start"
    /\ exit_code = NoExit
    /\ raised = "none"
    /\ fs = Null
    /\ IdleRun
    /\ IdleNaming
    /\ IdleGateway

monitorIdle == <<script, fs, raised, idleVars, nameVars, gatewayVars, project, npm>>

\* not os.path.exists(project_root): exit 1
MonNoProject ==
    /\ script = DependencyMonitor
    /\ pc = "start"
    /\ ~project.exists
    /\ exit_code' = 1
    /\ pc' = "done"
    /\ UNCHANGED <<monitorIdle, state_file, results>>

\* not package_json.exists(): exit 1
MonNoPackageJson ==
    /\ script = DependencyMonitor
    /\ pc = "start"
    /\ project.exists
    /\ ~project.package_json
    /\ exit_code' = 1
    /\ pc' = "done"
    /\ UNCHANGED <<monitorIdle, state_file, results>>

\* results = monitor.monitor_dependencies(), which an exception may end
MonMonitorRaises ==
    /\ script = DependencyMonitor
    /\ pc = "start"
    /\ project.exists
    /\ project.package_json
    /\ monitor_dependencies(state_file, npm).raises # "none"
    /\ raised' = monitor_dependencies(state_file, npm).raises
    /\ exit_code' = 1
    /\ pc' = "done"
    /\ UNCHANGED <<script, fs, idleVars, nameVars, gatewayVars, project, npm,
                   state_file, results>>

\* results = monitor.monitor_dependencies(); the state is saved unless the
\* file cannot be written
MonMonitor ==
    /\ script = DependencyMonitor
    /\ pc = "start"
    /\ project.exists
    /\ project.package_json
    /\ monitor_dependencies(state_file, npm).raises = "none"
    /\ results' = monitor_dependencies(state_file, npm)
    /\ \E written \in BOOLEAN :
          state_file' = IF written THEN results'.current_state ELSE state_file
    /\ pc' = "report"
    /\ UNCHANGED <<monitorIdle, exit_code>>

\* the report is printed; sys.exit(1) on a critical alert, else sys.exit(0)
MonExit ==
    /\ script = DependencyMonitor
    /\ pc = "report"
    /\ exit_code' = MonitorExit(results.alerts)
    /\ pc' = "done"
    /\ UNCHANGED <<monitorIdle, state_file, results>>

NextMonitor == MonNoProject \/ MonNoPackageJson \/ MonMonitorRaises \/ MonMonitor \/ MonExit

SpecMonitor == InitMonitor /\ [][NextMonitor]_vars

(***************************************************************************)
(* A process of any of the four scripts.                                   *)
(***************************************************************************)
Init == InitNaming \/ InitExt \/ InitSecurity \/ InitTodo

Next == NextNaming \/ NextExt \/ NextSecurity \/ NextTodo

Spec == Init /\ [][Next]_vars

(***************************************************************************)
(* Properties.                                                             *)
(***************************************************************************)
\* The findings of one severity over a list of file arguments.
Findings(args, sev) ==
    LET S[k \in 0..Len(args)] ==
            IF k = 0 THEN 0
            ELSE S[k - 1] + CountSeverity(check_file_security(args[k]), sev)
    IN  S[Len(args)]

\* The format issues over a list of file arguments.
FormatIssues(args) ==
    LET S[k \in 0..Len(args)] ==
            IF k = 0 THEN 0 ELSE S[k - 1] + Len(check_file_todos(args[k]))
    IN  S[Len(args)]

\* C1: a finished security run with at least one file argument exits 0 if and
\* only if it counted no error-severity finding and at most 5 warning-severity
\* findings, and 1 otherwise, whatever the number of info-severity findings;
\* the counters are the findings of the file arguments.
C1_SecurityExitDecision ==
    (script = SecurityCheck /\ pc = "done" /\ Len(argv) >= 1) =>
        /\ exit_code \in {0, 1}
        /\ exit_code = 0 <=> (total_errors = 0 /\ total_warnings <= 5)
        /\ total_errors = Findings(argv, "error")
        /\ total_warnings = Findings(argv, "warning")
        /\ total_info = Findings(argv, "info")

\* C1 witness: five warnings and an info finding, no error: the run passes.
C1_Witness ==
    /\ script = SecurityCheck
    /\ pc = "done"
    /\ total_errors = 0
    /\ total_warnings = 5
    /\ total_info >= 1
    /\ exit_code = 0

\* C2: a finished TODO run with at least one existing file exits 1 if and only
\* if the format issues summed over all files are more than 10, and 0 with 0 to
\* 10 issues.
C2_TodoExitDecision ==
    (script = CheckTodos /\ pc = "done" /\ ExistingPaths(argv) # <<>>) =>
        /\ exit_code \in {0, 1}
        /\ exit_code = 1 <=> total_issues > 10
        /\ total_issues = FormatIssues(ExistingPaths(argv))

\* C2 witness: exactly ten issues, and the run passes.
C2_Witness ==
    /\ script = CheckTodos
    /\ pc = "done"
    /\ total_issues = 10
    /\ exit_code = 0

\* C3: when the naming validator's main returns, it returns 1 if and only if
\* enforcement_level is 'error' and the scan found a violation; with 'warn' it
\* returns 0 even with violations; with 'off' it returns 0 and never scans.
C3_NamingExitDecision ==
    /\ (script = ValidateNaming /\ pc = "done" /\ raised = "none") =>
           /\ exit_code \in {0, 1}
           /\ exit_code = 1 <=>
                  (config.enforcement_level = "error" /\ violations # <<>>)
           /\ config.enforcement_level = "off" => violations = <<>>
    /\ (script = ValidateNaming /\ pc = "scan") => config.enforcement_level # "off"

\* C3 witness: level 'warn', violations found, main returned 0.
C3_Witness ==
    /\ script = ValidateNaming
    /\ pc = "done"
    /\ raised = "none"
    /\ config.enforcement_level = "warn"
    /\ violations # <<>>
    /\ exit_code = 0

\* The folder rules the extension validator works with, whatever the level.
RulesOf(config_file) ==
    IF config_file.state = "absent" THEN DefaultFolderRules
    ELSE Get(config_file.data, "folder_type_rules", <<>>)

\* C4: when the extension validator's main returns, it returns 1 if and only if
\* validate_folder_extensions found a violation under the configured folder
\* rules, whatever the configuration's enforcement_level.
C4_ExtensionExitDecision ==
    (script = ValidateExtensions /\ pc = "done" /\ raised = "none") =>
        /\ exit_code \in {0, 1}
        /\ exit_code = 1 <=> violations # <<>>
        /\ violations # <<>> <=>
               \E k \in 1..Len(RulesOf(fs.config_file)) :
                   FolderViolations(fs.tree, RulesOf(fs.config_file)[k]) # <<>>

\* C4 witness: enforcement_level 'off' in the configuration, and main returned 1.
C4_Witness ==
    /\ script = ValidateExtensions
    /\ pc = "done"
    /\ fs.config_file.state = "ok"
    /\ fs.config_file.data.enforcement_level = "off"
    /\ exit_code = 1

\* The security scanner has just scanned the readable file argv[idx - 1]:
\* issues is what check_file_security returned for it.
SecScanned ==
    /\ script = SecurityCheck
    /\ pc = "loop"
    /\ idx > 1
    /\ os_path_exists(argv[idx - 1])
    /\ fs[argv[idx - 1]].decodable

ScannedPath == argv[idx - 1]
ScannedContent == fs[argv[idx - 1]].content

AnnotationThenKey == <<"# SECURITY: REVIEWED", "api_key = \"abcdefghij\"">>
KeyWithAnnotation == <<"api_key = \"abcdefghij\"  # SECURITY: REVIEWED">>

\* C5 as stated: a file whose first line is the review annotation and whose
\* second line is the hardcoded api key yields zero violations.
C5_AnnotationOnPreviousLine ==
    (SecScanned /\ ScannedContent = AnnotationThenKey) => issues = <<>>

\* C5 amended: in a file of a scanned type whose path is not allowlisted, the
\* annotation on the line before the api key suppresses nothing: the scan
\* yields the one hardcoded-api-key error at line 2.  The annotation
\* suppresses a match on its own line: the api key followed by the annotation
\* on the same line yields zero violations.
C5_AnnotationOnMatchedLine ==
    SecScanned =>
        /\ ( /\ ScannedContent = AnnotationThenKey
             /\ In(get_file_extension(ScannedPath), <<"js", "jsx", "ts", "tsx", "py">>)
             /\ ScannedPath # "lib/validators/v.py" )
           => issues = << [severity |-> "error", line_num |-> 2,
                           name |-> "hardcoded-api-key"] >>
        /\ ScannedContent = KeyWithAnnotation => issues = <<>>

\* C5 witness: the annotated file was scanned as a .py file and has its violation.
C5_Witness ==
    /\ SecScanned
    /\ ScannedContent = AnnotationThenKey
    /\ ScannedPath = "a.py"
    /\ Len(issues) = 1

\* C6 as stated: a rule is applied to a file if and only if the file types it
\* is declared with are none or contain the file's extension.
C6_EmptyTypesApplyToAll ==
    SecScanned =>
        \A k \in 1..Len(SECURITY_PATTERNS) :
            RuleApplies(SECURITY_PATTERNS[k], get_file_extension(ScannedPath))
                <=> \/ DeclaredFileTypes[k] = NoFileTypes
                    \/ In(get_file_extension(ScannedPath), DeclaredFileTypes[k])

\* The file types a rule has after construction, as C6 amended states them.
EffectiveFileTypes(k) ==
    IF DeclaredFileTypes[k] = <<>> THEN <<"js", "jsx", "ts", "tsx", "py">>
    ELSE DeclaredFileTypes[k]

\* Rule k has a match in the lines that the allowlist does not suppress.
HasOpenMatch(k, lines, filepath) ==
    \E i \in 1..Len(lines) :
        /\ \/ PatternLineHits(SECURITY_PATTERNS[k].name, lines[i]) > 0
           \/ PatternSpanFrom(SECURITY_PATTERNS[k].name, lines, i)
        /\ ~is_allowlisted_line(lines[i], filepath)

\* C6 amended: a rule is applied to a file if and only if the file's extension
\* is among the rule's file types, which for a rule declared without file
\* types are js, jsx, ts, tsx and py: such a rule is not applied to files of
\* other extensions, and an unsuppressed match of a rule is reported exactly
\* when the rule is applied.
C6_EmptyTypesApplyToDefault ==
    SecScanned =>
        \A k \in 1..Len(SECURITY_PATTERNS) :
            /\ RuleApplies(SECURITY_PATTERNS[k], get_file_extension(ScannedPath))
                   <=> In(get_file_extension(ScannedPath), EffectiveFileTypes(k))
            /\ HasOpenMatch(k, ScannedContent, ScannedPath) =>
                   ( (\E i \in 1..Len(issues) :
                          issues[i].name = SECURITY_PATTERNS[k].name)
                     <=> In(get_file_extension(ScannedPath), EffectiveFileTypes(k)) )

\* C6 witness: a .md file holding the api key was scanned and has no violation.
C6_Witness ==
    /\ SecScanned
    /\ get_file_extension(ScannedPath) = "md"
    /\ ScannedContent = <<"api_key = \"abcdefghij\"">>
    /\ issues = <<>>

\* C7 as stated: once load_config is over, a configuration file that is
\* absent, unreadable or unparseable has ended no run of the naming or the
\* extension validator, and the run holds the embedded default configuration.
C7_LoadOrDefault ==
    ( /\ script \in {ValidateNaming, ValidateExtensions}
      /\ pc # "start"
      /\ fs.config_file.state \in {"absent", "unreadable", "malformed"} )
    => /\ raised = "none"
       /\ script = ValidateNaming => config = DefaultNamingConfig
       /\ script = ValidateExtensions => config = DefaultFolderRules

\* The configuration document holds a folder or file pattern that does not compile.
MalformedPattern(config_file) ==
    /\ config_file.state = "ok"
    /\ \/ ~Compiles(config_file.data.folder_patterns.required_prefix)
       \/ ~Compiles(config_file.data.file_patterns.required_prefix)

\* C8 as stated: a run of the naming validator whose configuration holds a
\* malformed pattern never starts scanning and never ends normally: past the
\* load of the configuration it has ended with an exception and not with 0.
C8_MalformedPatternFatal ==
    ( /\ script = ValidateNaming
      /\ MalformedPattern(fs.config_file)
      /\ pc \notin {"start", "loaded"} )
    => /\ pc = "done"
       /\ raised # "none"
       /\ exit_code # 0

\* The file argument can be scanned: it exists and decodes as UTF-8 text.
Scannable(filepath) == os_path_exists(filepath) /\ fs[filepath].decodable

RemoveAt(s, i) == SubSeq(s, 1, i - 1) \o SubSeq(s, i + 1, Len(s))

\* C9: in a finished run of the security or the TODO validator, for every file
\* argument that is missing or undecodable and leaves another existing file
\* when removed, the counters are the findings of the other arguments alone
\* (the unscannable file adds nothing and the later files are all counted)
\* and the exit code is the one decided from the findings of the other
\* arguments.
C9_UnscannableSkipped ==
    /\ (script = SecurityCheck /\ pc = "done" /\ Len(argv) >= 1) =>
           \A i \in 1..Len(argv) :
               (~Scannable(argv[i]) /\ ExistingPaths(RemoveAt(argv, i)) # <<>>) =>
                   LET rest == RemoveAt(argv, i)
                   IN  /\ total_errors = Findings(rest, "error")
                       /\ total_warnings = Findings(rest, "warning")
                       /\ total_info = Findings(rest, "info")
                       /\ exit_code = SecurityExit(Findings(rest, "error"),
                                                   Findings(rest, "warning"),
                                                   Findings(rest, "info"))
    /\ (script = CheckTodos /\ pc = "done" /\ Len(argv) >= 1) =>
           \A i \in 1..Len(argv) :
               (~Scannable(argv[i]) /\ ExistingPaths(RemoveAt(argv, i)) # <<>>) =>
                   LET rest == ExistingPaths(RemoveAt(argv, i))
                   IN  /\ total_issues = FormatIssues(rest)
                       /\ exit_code = TodoExit(FormatIssues(rest))

\* C9 witness: a security run given an undecodable file, a missing file and
\* then the file with the hardcoded key ended with that file's error counted.
C9_Witness ==
    /\ script = SecurityCheck
    /\ pc = "done"
    /\ argv = <<"bin.py", "gone.py", "k.py">>
    /\ total_errors = 1
    /\ exit_code = 1

\* C10 as stated: after a scan that ended normally, every directory of the
\* tree, at any depth, that is not excluded and not legacy-exempt has exactly
\* one 'folder' violation if its name fails the folder pattern and none if it
\* matches.
C10_EveryFolderValidated ==
    ( /\ script = ValidateNaming
      /\ pc = "done"
      /\ raised = "none"
      /\ config.enforcement_level # "off"
      /\ Compiles(config.folder_patterns.required_prefix) )
    => \A p \in fs.tree :
           ( /\ IsDir(p)
             /\ ~is_excluded(p, config.exclusions)
             /\ ~is_legacy_folder_exempted(p[Len(p)],
                    Get(config, "legacy_folder_exemptions", <<>>)) )
           => Cardinality({i \in 1..Len(violations) :
                              /\ violations[i].type = "folder"
                              /\ violations[i].path = p})
                  = IF validate_folder_name(p[Len(p)], config) THEN 0 ELSE 1

\* A naming scan has ended normally with this run's configuration.
NamingScanned ==
    /\ script = ValidateNaming
    /\ pc = "done"
    /\ raised = "none"
    /\ config.enforcement_level # "off"

\* The number of recorded violations of a type for a path.
Recorded(type, path) ==
    Cardinality({i \in 1..Len(violations) :
                    violations[i].type = type /\ violations[i].path = path})

\* C11: after a naming scan, every file of the tree whose path is not excluded
\* has at most one 'file' violation, and has one if and only if its name does
\* not start with '.', is not an exact legacy-file exemption, and fails the
\* file pattern or has a suffix outside allowed_extensions; under the default
\* configuration 10-documentation/01-overview.txt has none and
\* documentation/overview.txt has one.
C11_FileViolations ==
    (NamingScanned /\ Compiles(config.file_patterns.required_prefix)) =>
        /\ \A p \in fs.tree :
               (~IsDir(p) /\ ~is_excluded(p, config.exclusions)) =>
                   /\ Recorded("file", p) \in {0, 1}
                   /\ Recorded("file", p) = 1 <=>
                          /\ ~StartsWithDot(p[Len(p)])
                          /\ ~In(p[Len(p)], Get(config, "legacy_exemptions", <<>>))
                          /\ \/ ~re_match(config.file_patterns.required_prefix, p[Len(p)])
                             \/ ~In(Suffix(p[Len(p)]),
                                    config.file_patterns.allowed_extensions)
        /\ config = DefaultNamingConfig =>
               /\ <<"10-documentation", "01-overview.txt">> \in fs.tree =>
                      Recorded("file", <<"10-documentation", "01-overview.txt">>) = 0
               /\ <<"documentation", "overview.txt">> \in fs.tree =>
                      Recorded("file", <<"documentation", "overview.txt">>) = 1

\* C11 witness: a scan of a tree with a hidden file at the root and
\* documentation/overview.txt recorded the one violation of overview.txt.
C11_Witness ==
    /\ NamingScanned
    /\ config = DefaultNamingConfig
    /\ <<".env">> \in fs.tree
    /\ Recorded("file", <<".env">>) = 0
    /\ Recorded("file", <<"documentation", "overview.txt">>) = 1

\* path is dir or lies at any depth beneath it.
IsAtOrBeneath(path, dir) ==
    Len(path) >= Len(dir) /\ SubSeq(path, 1, Len(dir)) = dir

\* The path contains one of the configured exclusion substrings.
ContainsExclusion(path, exclusions) ==
    \E i \in 1..Len(path) : \E k \in 1..Len(exclusions) :
        NameContains(path[i], exclusions[k])

\* C12: at every point of a naming run, for every directory of the tree whose
\* path contains a configured exclusion, no recorded violation is for that
\* directory, for a file in it, or for a file or folder at any depth beneath it.
C12_ExcludedPruned ==
    (script = ValidateNaming /\ pc \in {"scan", "done"} /\ config # Null) =>
        \A d \in fs.tree :
            (IsDir(d) /\ ContainsExclusion(d, config.exclusions)) =>
                \A i \in 1..Len(violations) : ~IsAtOrBeneath(violations[i].path, d)

\* C12 witness: a scan recorded the badly named file at the root and nothing
\* for the badly named file inside node_modules.
C12_Witness ==
    /\ NamingScanned
    /\ <<"node_modules", "overview.txt">> \in fs.tree
    /\ Recorded("file", <<"overview.txt">>) = 1
    /\ Len(violations) = 1

\* C13: when the extension scan has ended, each file of the tree has, for each
\* configured folder, one violation if it lies at any depth under that
\* top-level folder, its name does not start with '.', and its suffix is not
\* in the folder's allowed list, and none otherwise; every violation names a
\* configured folder, a file under it, and exactly that folder's allowed list,
\* so a file outside every configured folder has no violation.
C13_ExtensionViolations ==
    (script = ValidateExtensions /\ pc = "done" /\ raised = "none") =>
        /\ \A p \in fs.tree : \A k \in 1..Len(config) :
               ~IsDir(p) =>
                   Cardinality({i \in 1..Len(violations) :
                                   /\ violations[i].file = p
                                   /\ violations[i].folder = config[k].folder})
                       = IF /\ Len(p) >= 2
                            /\ p[1] = config[k].folder
                            /\ ~StartsWithDot(p[Len(p)])
                            /\ ~In(Suffix(p[Len(p)]), config[k].allowed)
                         THEN 1 ELSE 0
        /\ \A i \in 1..Len(violations) :
               /\ violations[i].file \in fs.tree
               /\ ~IsDir(violations[i].file)
               /\ violations[i].file[1] = violations[i].folder
               /\ \E k \in 1..Len(config) :
                      /\ config[k].folder = violations[i].folder
                      /\ config[k].allowed = violations[i].allowed

\* C13 witness: the scan flagged the .exe file two levels below 10-documentation
\* with the default allowed list of that folder.
C13_Witness ==
    /\ script = ValidateExtensions
    /\ pc = "done"
    /\ raised = "none"
    /\ violations = << [folder |-> "10-documentation",
                        file |-> <<"10-documentation", "documentation", "01-tool.exe">>,
                        extension |-> ".exe",
                        allowed |-> <<".txt", ".md">>] >>

\* The TODO validator has just scanned the readable file filepaths[idx - 1]:
\* issues is what check_file_todos returned for it.
TodoScanned ==
    /\ script = CheckTodos
    /\ pc = "loop"
    /\ idx > 1
    /\ fs[filepaths[idx - 1]].decodable

TodoScannedLines == readlines(fs[filepaths[idx - 1]].content)

TodoScannedRules == patterns_to_check(get_file_extension(filepaths[idx - 1]))

\* The number of issues a scan returned for a line under a rule name.
IssuesAt(line_num, name) ==
    Cardinality({i \in 1..Len(issues) :
                    issues[i].line_num = line_num /\ issues[i].name = name})

\* C14: in a scanned file, for every line that contains 'todo' and every
\* invalid-polarity rule applicable to the file, the scan returned exactly one
\* warning with the rule's name for the line if the rule matches it and none
\* if it does not, whether or not a valid-polarity rule matches the line too;
\* '// TODO: fix' has its vague-todo warning and
\* '// TODO: Refactor auth module (Task 42)' has no violation.
C14_PolarityIndependent ==
    TodoScanned =>
        \A n \in 1..Len(TodoScannedLines) :
            LET line == TodoScannedLines[n]
            IN  /\ ContainsTodo(line.text) =>
                       \A k \in 1..Len(TodoScannedRules) :
                           ~TodoScannedRules[k].valid =>
                               /\ IssuesAt(n, TodoScannedRules[k].name)
                                      = IF pattern_search(TodoScannedRules[k].name, line)
                                        THEN 1 ELSE 0
                               /\ \A i \in 1..Len(issues) :
                                      issues[i].severity = "warning"
                /\ line.text = "// TODO: fix" => IssuesAt(n, "vague-todo") = 1
                /\ line.text = "// TODO: Refactor auth module (Task 42)" =>
                       \A i \in 1..Len(issues) : issues[i].line_num # n

\* C14 witness: a scanned line matched by a valid rule and by an invalid rule
\* kept the invalid rule's warning.
C14_Witness ==
    /\ TodoScanned
    /\ TodoScannedLines[1].text = "// TODO: Fix parser (Task 7) over 3 months"
    /\ pattern_search("standard-todo", TodoScannedLines[1])
    /\ IssuesAt(1, "outdated-todo") = 1

\* C15: in a scanned file, every line has one 'invalid-todo-format' violation
\* if it contains 'todo', no valid-polarity rule applicable to the file
\* matches it and the secondary well-formed shape does not match it, and none
\* otherwise, however many invalid-polarity warnings the line has; the
\* violation comes after every rule warning of its line.
C15_CatchAll ==
    TodoScanned =>
        \A n \in 1..Len(TodoScannedLines) :
            LET line == TodoScannedLines[n]
                valid_matched ==
                    \E k \in 1..Len(TodoScannedRules) :
                        /\ TodoScannedRules[k].valid
                        /\ pattern_search(TodoScannedRules[k].name, line)
            IN  /\ IssuesAt(n, "invalid-todo-format")
                       = IF /\ ContainsTodo(line.text)
                            /\ ~valid_matched
                            /\ ~WellFormedShape(line)
                         THEN 1 ELSE 0
                /\ \A i, j \in 1..Len(issues) :
                       ( /\ issues[i].line_num = n
                         /\ issues[j].line_num = n
                         /\ issues[i].name = "invalid-todo-format"
                         /\ issues[j].name # "invalid-todo-format" ) => j < i

\* C15 witness: a scanned line with two invalid-polarity warnings has the
\* catch-all violation too, and a line of the same file that the well-formed
\* shape matches has none.
C15_Witness ==
    /\ TodoScanned
    /\ TodoScannedLines[1].text = "# todo fix"
    /\ IssuesAt(1, "vague-todo") = 1
    /\ IssuesAt(1, "informal-todo") = 1
    /\ IssuesAt(1, "invalid-todo-format") = 1
    /\ Len(TodoScannedLines) = 2
    /\ TodoScannedLines[2].text = "// TODO: fix"
    /\ IssuesAt(2, "invalid-todo-format") = 0

\* The issues of a file under the rule registry as the module built it.
FreshTodoScan(filepath) ==
    LET patterns == InitialTodoPatterns \o FILETYPE_PATTERNS(get_file_extension(filepath))
        lines == readlines(fs[filepath].content)
        L[n \in 0..Len(lines)] ==
            IF n = 0 THEN <<>>
            ELSE IF IsBlank(lines[n].text) \/ ~ContainsTodo(lines[n].text)
                 THEN L[n - 1]
                 ELSE L[n - 1] \o LineIssues(patterns, lines[n], n)
    IN  L[Len(lines)]

\* C16: at every point of a TODO run the rule registry is the one the module
\* built, and each scan returned the issues that the file's path and content
\* give under that registry, whichever files were scanned before it (the same
\* file included); each scan of the security validator returned the issues of
\* the file's path and content under SECURITY_PATTERNS.
C16_ScansIndependent ==
    /\ script = CheckTodos => TODO_PATTERNS = InitialTodoPatterns
    /\ TodoScanned => issues = FreshTodoScan(filepaths[idx - 1])
    /\ SecScanned => issues = check_file_security(ScannedPath)

\* C16 witness: the .js file was scanned, then the .md file, then the .js file
\* again, with the same one issue as a first scan gives.
C16_Witness ==
    /\ TodoScanned
    /\ filepaths = <<"s.js", "notes.md", "s.js">>
    /\ idx = 4
    /\ issues = << TodoIssue(1, "vague-todo") >>

\* The orders in which the file arguments can be given.
ArgumentOrders(s) ==
    { [i \in 1..Len(s) |-> s[f[i]]] :
        f \in {g \in [1..Len(s) -> 1..Len(s)] :
                  \A i, j \in 1..Len(s) : g[i] = g[j] => i = j} }

\* C17: a finished security run has the error, warning and info counts and
\* the exit code that every order of its file arguments gives, and a finished
\* TODO run has the issue count, total_todos, invalid_todos, files_with_todos
\* and exit code that every order of its file arguments gives.
C17_OrderIndependent ==
    /\ (script = SecurityCheck /\ pc = "done" /\ Len(argv) >= 1) =>
           \A q \in ArgumentOrders(argv) :
               /\ total_errors = Findings(q, "error")
               /\ total_warnings = Findings(q, "warning")
               /\ total_info = Findings(q, "info")
               /\ exit_code = SecurityExit(Findings(q, "error"),
                                           Findings(q, "warning"),
                                           Findings(q, "info"))
    /\ (script = CheckTodos /\ pc = "done" /\ ExistingPaths(argv) # <<>>) =>
           \A q \in ArgumentOrders(argv) :
               LET s == analyze_todo_stats(ExistingPaths(q))
               IN  /\ total_issues = FormatIssues(ExistingPaths(q))
                   /\ stats.total_todos = s.total_todos
                   /\ stats.invalid_todos = s.invalid_todos
                   /\ stats.files_with_todos = s.files_with_todos
                   /\ exit_code = TodoExit(FormatIssues(ExistingPaths(q)))

\* C17 witness: a security run over three different files with an error,
\* three warnings and an info finding ended.
C17_Witness ==
    /\ script = SecurityCheck
    /\ pc = "done"
    /\ argv = <<"b.js", "k.py", "a.py">>
    /\ total_errors = 1
    /\ total_warnings = 3
    /\ total_info = 1
    /\ exit_code = 1

\* The matches of the applied rules in a file that the suppression filter
\* does not accept.
OpenMatches(filepath) ==
    IF ~Scannable(filepath) THEN 0
    ELSE LET lines == fs[filepath].content
             Open(k) ==
                 LET ms == finditer(SECURITY_PATTERNS[k].name, lines)
                 IN  Cardinality({j \in 1..Len(ms) :
                         ~is_allowlisted_line(lines[ms[j] + 1], filepath)})
             S[k \in 0..Len(SECURITY_PATTERNS)] ==
                 IF k = 0 THEN 0
                 ELSE IF RuleApplies(SECURITY_PATTERNS[k], get_file_extension(filepath))
                      THEN S[k - 1] + Open(k)
                      ELSE S[k - 1]
         IN  S[Len(SECURITY_PATTERNS)]

\* The violations emitted by the scans of the first n file arguments.
EmittedUpTo(n) ==
    LET S[k \in 0..n] == IF k = 0 THEN 0 ELSE S[k - 1] + OpenMatches(argv[k])
    IN  S[n]

SuppressionBeforeCreation ==
    /\ (script = SecurityCheck /\ pc \in {"loop", "done"} /\ Len(argv) >= 1) =>
           total_errors + total_warnings + total_info = EmittedUpTo(idx - 1)
    /\ SecScanned =>
           /\ Len(issues) = OpenMatches(ScannedPath)
           /\ \A i \in 1..Len(issues) :
                  ~is_allowlisted_line(ScannedContent[issues[i].line_num], ScannedPath)

CountersGrow ==
    script = SecurityCheck =>
        /\ total_errors' >= total_errors
        /\ total_warnings' >= total_warnings
        /\ total_info' >= total_info

\* C18: at every point of a security run the sum of total_errors,
\* total_warnings and total_info is the number of matches of the files scanned
\* so far that the suppression filter did not accept, no issue of a scan is
\* for a line the filter accepts, and no step of the run lowers a counter.
C18_AggregateOnlyGrows == []SuppressionBeforeCreation /\ [][CountersGrow]_vars

\* C18 witness: a file with the api key on a line carrying the annotation and
\* on a line without it was scanned: one error counted.
C18_Witness ==
    /\ SecScanned
    /\ ScannedPath = "a.py"
    /\ ScannedContent = << "api_key = \"abcdefghij\"  # SECURITY: REVIEWED",
                           "api_key = \"abcdefghij\"" >>
    /\ issues = << [severity |-> "error", line_num |-> 2, name |-> "hardcoded-api-key"] >>
    /\ total_errors = 1

\* The issues a security scan returned for a rule.
IssuesOfRule(name) == Cardinality({i \in 1..Len(issues) : issues[i].name = name})

AllowlistMatches(text) ==
    \E k \in 1..Len(ALLOWLIST_PATTERNS) : re_search(ALLOWLIST_PATTERNS[k], StripLower(text))

\* C20: for every line and file path of a security scan, is_allowlisted_line
\* holds if and only if an allowlist pattern matches the lower-cased line or
\* the lower-cased path; a scanned file whose path an allowlist pattern
\* matches has no security violation, whatever its content.
C20_TwoAxisSuppression ==
    SecScanned =>
        /\ \A n \in 1..Len(ScannedContent) :
               is_allowlisted_line(ScannedContent[n], ScannedPath)
                   <=> (AllowlistMatches(ScannedContent[n]) \/ AllowlistMatches(ScannedPath))
        /\ AllowlistMatches(ScannedPath) => issues = <<>>

\* C20 witness: a file under lib/validators holding the api key and the weak
\* hashes, neither line annotated, was scanned without a violation.
C20_Witness ==
    /\ SecScanned
    /\ ScannedPath = "lib/validators/v.py"
    /\ ScannedContent = <<"api_key = \"abcdefghij\"", "h = md5(a) + sha1(b)">>
    /\ ~AllowlistMatches(ScannedContent[1])
    /\ ~AllowlistMatches(ScannedContent[2])
    /\ issues = <<>>

\* The issues a security scan returned for a rule at a line.
IssuesOfRuleAt(name, line_num) ==
    Cardinality({i \in 1..Len(issues) :
                    issues[i].name = name /\ issues[i].line_num = line_num})

\* C21: in a scanned file every violation's line number lies between 1 and
\* the number of lines; a rule has at a line as many violations as it has
\* matches that start after line - 1 newline characters, when the filter does
\* not accept the text of that line, and none when it does; the api key whose
\* match starts on line 1 and ends on an annotated line 2 is reported at
\* line 1, the annotation of the end line suppressing nothing.
C21_LineOfMatchStart ==
    SecScanned =>
        /\ \A i \in 1..Len(issues) :
               issues[i].line_num >= 1 /\ issues[i].line_num <= Len(ScannedContent)
        /\ \A k \in 1..Len(SECURITY_PATTERNS) : \A n \in 1..Len(ScannedContent) :
               RuleApplies(SECURITY_PATTERNS[k], get_file_extension(ScannedPath)) =>
                   LET ms == finditer(SECURITY_PATTERNS[k].name, ScannedContent)
                   IN  IssuesOfRuleAt(SECURITY_PATTERNS[k].name, n)
                           = IF is_allowlisted_line(ScannedContent[n], ScannedPath)
                             THEN 0
                             ELSE Cardinality({j \in 1..Len(ms) : ms[j] + 1 = n})
        /\ ( /\ ScannedPath = "a.py"
             /\ ScannedContent = <<"api_key =", "\"abcdefghij\"  # SECURITY: REVIEWED">> )
           => issues = << [severity |-> "error", line_num |-> 1,
                           name |-> "hardcoded-api-key"] >>

\* C21 witness: the file whose api key starts on line 1 and ends on the
\* annotated line 2 was scanned and has its violation at line 1.
C21_Witness ==
    /\ SecScanned
    /\ ScannedPath = "a.py"
    /\ ScannedContent = <<"api_key =", "\"abcdefghij\"  # SECURITY: REVIEWED">>
    /\ Len(issues) = 1
    /\ issues[1].line_num = 1

\* How many times a path is given on the command line.
TimesGiven(filepath) == Cardinality({i \in 1..Len(argv) : argv[i] = filepath})

\* The findings of a severity when each distinct path counts once per time
\* it is given.
FindingsByPath(sev) ==
    LET S[ps \in SUBSET Range(argv)] ==
            IF ps = {} THEN 0
            ELSE LET p == CHOOSE x \in ps : TRUE
                 IN  TimesGiven(p) * CountSeverity(check_file_security(p), sev)
                         + S[ps \ {p}]
    IN  S[Range(argv)]

\* C22: the two weak-crypto matches on one line of a scanned file are two
\* violations with the same severity, line number and rule name; a finished
\* run counted the findings of every path as many times as the path was
\* given, and decided its exit code from those counts.
C22_NeverMerged ==
    /\ SecScanned =>
           \A n \in 1..Len(ScannedContent) :
               ( /\ ScannedContent[n] = "h = md5(a) + sha1(b)"
                 /\ ~is_allowlisted_line(ScannedContent[n], ScannedPath)
                 /\ get_file_extension(ScannedPath) \in {"py", "js"} )
               => Cardinality({i \in 1..Len(issues) :
                      issues[i] = [severity |-> "warning", line_num |-> n,
                                   name |-> "weak-crypto"]}) = 2
    /\ (script = SecurityCheck /\ pc = "done" /\ Len(argv) >= 1) =>
           /\ total_errors = FindingsByPath("error")
           /\ total_warnings = FindingsByPath("warning")
           /\ total_info = FindingsByPath("info")
           /\ exit_code = SecurityExit(FindingsByPath("error"),
                                       FindingsByPath("warning"),
                                       FindingsByPath("info"))

\* C22 witness: the file with three warnings was given twice; the run counted
\* six warnings and failed, where one scan of it passes.
C22_Witness ==
    /\ script = SecurityCheck
    /\ pc = "done"
    /\ argv = <<"a.py", "a.py">>
    /\ total_warnings = 6
    /\ exit_code = 1
    /\ SecurityExit(0, CountSeverity(check_file_security("a.py"), "warning"), 0) = 0

C24_TodoPrefilter ==
    TodoScanned =>
        \A n \in 1..Len(TodoScannedLines) :
            (IsBlank(TodoScannedLines[n].text) \/ ~ContainsTodo(TodoScannedLines[n].text))
                => \A i \in 1..Len(issues) : issues[i].line_num # n

\* C24 witness: in a scanned .md file the line '- [ ] add tests', which
\* markdown-incomplete matches, has no violation, and the line
\* '- [ ] write todo list' has the markdown-incomplete warning.
C24_Witness ==
    /\ TodoScanned
    /\ get_file_extension(filepaths[idx - 1]) = "md"
    /\ Len(TodoScannedLines) = 2
    /\ TodoScannedLines[1].text = "- [ ] add tests"
    /\ pattern_search("markdown-incomplete", TodoScannedLines[1])
    /\ TodoScannedLines[2].text = "- [ ] write todo list"
    /\ IssuesAt(1, "markdown-incomplete") = 0
    /\ IssuesAt(2, "markdown-incomplete") = 1

\* The TODO validator has its statistics.
TodoReported == script = CheckTodos /\ pc \in {"report", "done"} /\ stats # Null

\* The occurrences of 'todo' in a file of the run, 0 for an unreadable one.
TodosIn(filepath) ==
    IF Scannable(filepath) THEN todo_count(fs[filepath].content) ELSE 0

\* C25 as stated: the reported 'most' file has the highest violation count of
\* the scanned files and the reported count is its number of violations.
C25_MostByViolations ==
    (TodoReported /\ stats.most_todos_file # "") =>
        /\ \A k \in 1..Len(filepaths) :
               Len(check_file_todos(filepaths[k]))
                   <= Len(check_file_todos(stats.most_todos_file))
        /\ stats.most_todos_count = Len(check_file_todos(stats.most_todos_file))

\* C25 amended: the reported 'most' file is the first of the scanned files,
\* in argument order, with the highest number of occurrences of 'todo', and
\* the reported count is that number of occurrences, whatever the files'
\* violation counts; when no readable file contains 'todo' the file is ''
\* and the count 0.
C25_MostByOccurrences ==
    TodoReported =>
        IF \A k \in 1..Len(filepaths) : TodosIn(filepaths[k]) = 0
        THEN stats.most_todos_file = "" /\ stats.most_todos_count = 0
        ELSE \E m \in 1..Len(filepaths) :
                 /\ stats.most_todos_file = filepaths[m]
                 /\ stats.most_todos_count = TodosIn(filepaths[m])
                 /\ \A k \in 1..Len(filepaths) :
                        /\ TodosIn(filepaths[k]) <= TodosIn(filepaths[m])
                        /\ k < m => TodosIn(filepaths[k]) < TodosIn(filepaths[m])

\* C25 witness: of two files with two TODOs each, the first was reported with
\* the count 2, though it has four violations and the second has six.
C25_Witness ==
    /\ TodoReported
    /\ filepaths = <<"u.py", "t.py">>
    /\ stats.most_todos_file = "u.py"
    /\ stats.most_todos_count = 2
    /\ Len(check_file_todos("u.py")) = 4
    /\ Len(check_file_todos("t.py")) = 6

-----------------------------------------------------------------------------
\* C26: TODO statistics are consistent: in every report of
\* analyze_todo_stats, invalid_todos never exceeds total_todos, so
\* valid_todos (total_todos minus invalid_todos) is never negative.
\* The code counts total_todos in occurrences of 'todo' and invalid_todos in
\* issues, and one TODO line can raise several issues.
C26_StatsConsistent ==
    TodoReported =>
        /\ stats.invalid_todos <= stats.total_todos
        /\ stats.valid_todos >= 0

-----------------------------------------------------------------------------
\* A request of the gateway has just been handled.
Handled(endpoint) == served' = served + 1 /\ request'.endpoint = endpoint

\* C27: gateway replace is all-or-nothing: for every call of
\* /api/models/replace, a response that is not a success (401, 400 or 500)
\* leaves the content of the models table as it was before the call; a
\* success leaves exactly the supplied models, with models_inserted their
\* number and batches_processed that number divided by 100, rounded up.
C27_ReplaceAllOrNothing ==
    [][Handled("/api/models/replace") =>
          IF response'.status # 200
          THEN ai_models_discovery' = ai_models_discovery
          ELSE /\ ai_models_discovery' = request'.json.models
               /\ response'.models_inserted = Len(request'.json.models)
               /\ response'.batches_processed * BATCH_SIZE >= Len(request'.json.models)
               /\ (response'.batches_processed - 1) * BATCH_SIZE < Len(request'.json.models)]_vars

\* The Authorization header is exactly 'Bearer ' followed by the secret.
ExactBearer(auth_header, secret) ==
    auth_header.present /\ auth_header.value = <<Bearer>> \o secret

GuardedEndpoints == {"/api/models/replace", "/api/staging/insert", "/api/staging/process"}

\* C28: gateway authorization: on /api/models/replace, /api/staging/insert
\* and /api/staging/process a request reaches a database operation only if
\* its Authorization header is exactly 'Bearer ' followed by the configured
\* secret; every other request gets 401 and performs no database operation.
C28_ExactBearerOnly ==
    (script = ApiGateway /\ request # Null /\ request.endpoint \in GuardedEndpoints) =>
        /\ db_calls # <<>> =>
               ExactBearer(request.authorization, ai_models_discovery_api_secret_key)
        /\ ~ExactBearer(request.authorization, ai_models_discovery_api_secret_key) =>
               response.status = 401 /\ db_calls = <<>>

-----------------------------------------------------------------------------
\* The package names of a state, and the version of one of them.
PackagesOf(state) ==
    IF state.kind = "object" /\ state.packages.kind = "object"
    THEN state.packages.entries ELSE <<>>

\* The diff of the pair of states the run is in.
CurrentOfRun == CurrentState(get_installed_packages(npm).packages)
PreviousOfRun == load_previous_state(state_file)
ChangesOfRun == analyze_dependency_changes(CurrentOfRun, PreviousOfRun)

\* C29: the dependency diff is a partition: whenever
\* analyze_dependency_changes returns, the key sets of 'added', 'removed',
\* 'updated' and 'unchanged' are pairwise disjoint, their union is the union
\* of the current and the previous package names, and a package is 'updated'
\* exactly when it is in both states with different versions.
C29_DiffIsPartition ==
    (script = DependencyMonitor /\ get_installed_packages(npm).raises = "none"
     /\ ChangesOfRun.raises = "none") =>
        LET added == DOMAIN ChangesOfRun.added
            removed == DOMAIN ChangesOfRun.removed
            updated == DOMAIN ChangesOfRun.updated
            unchanged == DOMAIN ChangesOfRun.unchanged
            current == PackagesOf(CurrentOfRun)
            previous == PackagesOf(PreviousOfRun)
        IN  /\ added \cap removed = {} /\ added \cap updated = {}
            /\ added \cap unchanged = {} /\ removed \cap updated = {}
            /\ removed \cap unchanged = {} /\ updated \cap unchanged = {}
            /\ added \cup removed \cup updated \cup unchanged
                   = DOMAIN current \cup DOMAIN previous
            /\ \A name \in PackageNames :
                   name \in updated <=>
                       /\ name \in DOMAIN current \cap DOMAIN previous
                       /\ current[name].version # previous[name].version

\* C29 witness: a run returned a diff with an added, a removed and an
\* updated package.
C29_Witness ==
    /\ script = DependencyMonitor
    /\ pc = "report"
    /\ results.changes = analyze_dependency_changes(results.current_state,
                                                    results.previous_state)
    /\ DOMAIN results.changes.added = {"axios"}
    /\ DOMAIN results.changes.removed = {"lodash"}
    /\ DOMAIN results.changes.updated = {"react"}
    /\ results.changes.updated["react"].from = "1.0.0"
    /\ results.changes.updated["react"].to = "2.0.0"

\* C30: the dependency monitor exits 0 whenever the project directory and
\* its package.json exist, for every previous state and every current
\* package set.  A state file or an npm listing of an unexpected shape, or
\* an npm that cannot be started, ends the run with an uncaught exception
\* and status 1.
C30_AlwaysExitsZero ==
    (script = DependencyMonitor /\ pc = "done"
     /\ project.exists /\ project.package_json) => exit_code = 0

=============================================================================
